---------------------------- MODULE Spec2Model ----------------------------
(***************************************************************************)
(* A model of the SDS-Extract field extraction engine:                     *)
(*   - the local path   (sds_extractor.py: extract_sds_data and helpers),  *)
(*   - the model path   (ai_extractor.py: extract_with_ai and              *)
(*                       extract_from_pdf_with_ai; ml_extractor.py:        *)
(*                       extract_sds_with_ml and its strategies).          *)
(*                                                                         *)
(* Texts are finite sequences of pieces (a piece is a stretch of text that *)
(* the regular expressions of the program treat as a unit, such as the     *)
(* label "CAS No:" or the number "872-50-4"); a Python str value is a      *)
(* sequence of such pieces, a dict is a function from keys to values.      *)
(***************************************************************************)
EXTENDS Integers, Sequences, FiniteSets, TLC

VARIABLES
    environ,          \* what module initialisation finds: the two keys, the two packages
    ai_client,        \* ai_extractor.ai_client: "OpenAI", "Anthropic" or "None"
    ai_service,       \* ai_extractor.ai_service: "openai", "anthropic" or "none"
    hash_order,       \* iteration order of a set of str under the process's hash seed
    pc,               \* position of the top-level call
    call,             \* the function the caller invoked
    text,             \* the document text of the call
    light_mode,       \* the light_mode argument the caller passed
    strategy,         \* the strategy argument of extract_sds_with_ml
    sds_method,       \* the method argument of extract_sds_data
    sds_pattern_data, \* extract_sds_data: pattern_data
    sds_section_data, \* extract_sds_data: section_data
    from_pdf,         \* extract_sds_with_ml runs inside extract_from_pdf_with_ml
    pdf_light,        \* light_mode of the running extract_from_pdf_with_ai frame
    nested,           \* nested extract_from_pdf_with_ai(light_mode=True) calls made
    ai_pc,            \* position inside extract_with_ai
    ai_light,         \* light_mode argument of the running extract_with_ai
    retry_count,      \* extract_with_ai: retry_count
    wait_time,        \* duration of the last time.sleep (0: none yet)
    sleeps,           \* time.sleep calls made by the running extract_with_ai
    response_bound,   \* whether the local response_text is bound
    response_text,    \* the provider's reply
    last_exc,         \* message of the last exception the provider raised
    all_rate_limit,   \* every attempt so far raised a rate-limit signal
    calls,            \* provider calls made by the running extract_with_ai
    provider_called,  \* a provider call was made during the top-level call
    ai_ret,           \* what extract_with_ai returned (or that it raised)
    h_pc,             \* position inside hierarchical_extraction
    h_results,        \* hierarchical_extraction: results
    results,          \* extract_sds_with_ml: results (multi_pass: basic_results)
    first_aid_data,   \* multi_pass_extraction: first_aid_data
    firefighting_data,\* multi_pass_extraction: firefighting_data
    hazard_data,      \* multi_pass_extraction: hazard_data
    result            \* what the top-level call returned (or that it raised)

callVars == << call, text, light_mode, strategy, sds_method, from_pdf >>
pdfVars  == << pdf_light, nested >>
aiVars   == << ai_pc, ai_light, retry_count, wait_time, sleeps, response_bound,
               response_text, last_exc, all_rate_limit, calls, ai_ret >>
mlVars   == << h_pc, h_results, results, first_aid_data, firefighting_data,
               hazard_data >>
sdsVars  == << sds_pattern_data, sds_section_data >>

\* Module-level state: bound when the modules are imported.
modVars == << environ, ai_client, ai_service, hash_order >>

vars == << modVars, pc, callVars, pdfVars, aiVars, mlVars, sdsVars,
          provider_called, result >>

--------------------------------------------------------------------------
(* Values and dicts                                                        *)

\* A Python value of a result dict: a str (pieces), a list or a dict (items).
Str(s)     == [t |-> "str",  v |-> s]
ListOf(s)  == [t |-> "list", v |-> s]
DictOf(s)  == [t |-> "dict", v |-> s]
EmptyStr   == Str(<< >>)

\* Python truthiness of a value: "", [] and {} are falsy.
Truthy(val) == Len(val.v) > 0

EmptyDict == [k \in {} |-> EmptyStr]
Put(d, k, val) == [x \in DOMAIN d \cup {k} |-> IF x = k THEN val ELSE d[x]]
Get(d, k, default) == IF k \in DOMAIN d THEN d[k] ELSE default

\* The outcome of a call: it returned a dict, it returned a non-dict JSON
\* value, it raised, or it has not finished.
Ret(d)   == [kind |-> "ret",   rec |-> d]
Raised   == [kind |-> "raise", rec |-> EmptyDict]
NoResult == [kind |-> "none",  rec |-> EmptyDict]

ErrorDict(msg) == Put(EmptyDict, "error", Str(msg))
HasError(r) == r.kind = "ret" /\ "error" \in DOMAIN r.rec


--------------------------------------------------------------------------
(* Canonical fields and the known-substance override of the model path     *)

\* ai_extractor.extract_with_ai: expected_fields (the same list is repeated
\* in ml_extractor.extract_sds_with_ml).
expected_fields ==
    << "Product Name", "CAS Number", "Chemical Identification",
       "Health Hazards", "Health Category", "Physical Hazards",
       "Physical Category", "Flash Point", "Appearance", "Odour",
       "Colour", "Storage Use", "Supplier/Manufacturer",
       "Dangerous Goods Class", "Packing Group", "Environmental Hazards",
       "First Aid Measures", "Firefighting Measures" >>

Range(s) == { s[i] : i \in 1..Len(s) }

\* The fixed Health Hazards phrase of the known-substance override.
NMP_HEALTH_HAZARDS ==
    << "Reproductive Toxicity; Skin irritation; Eye irritation; Specific target organ toxicity, single exposure, Respiratory tract irritation" >>
NMP_ODOUR == << "amine" >>

\* Lexemes of a document text whose lower-cased form contains
\* "1-methyl-2-pyrrolidone", "1-methyl-2-pyrrolidinone", "nmp" or "872-50-4"
\* (extract_with_ai's substring tests).
AiTriggerLexemes == { "872-50-4", "NMPA" }
ai_is_nmp(t) == \E i \in 1..Len(t) : t[i] \in AiTriggerLexemes

--------------------------------------------------------------------------
(* Provider replies and json.loads                                         *)

\* Lexemes of a provider reply:
\*   "p"   a run of prose without braces, brackets or backticks, not JSON
\*   "fo"  the fence opener ```json        "fc"  a bare fence ```
\*   "{" "}" "[" "]"                        JSON punctuation
\*   member lexemes: one "key": value pair of a JSON object
Members ==
    { "kvName", "kvList", "kvDict", "kvHealth", "kvError", "kvGHS", "kvGHSPhysical",
      "kvHStmt",
      "kvInhalation", "kvSkin", "kvMedia", "kvAppearance", "kvOdour" }

MemberKey(m) ==
    CASE m = "kvName"   -> "Product Name"
      [] m = "kvList"   -> "Physical Hazards"
      [] m = "kvDict"   -> "First Aid Measures"
      [] m = "kvHealth" -> "Health Hazards"
      [] m = "kvError"  -> "error"
      [] m = "kvGHS"    -> "GHS Classification"
      [] m = "kvGHSPhysical" -> "GHS Classification"
      [] m = "kvHStmt"  -> "Hazard Statements"
      [] m = "kvInhalation" -> "Inhalation"
      [] m = "kvSkin"   -> "Skin Contact"
      [] m = "kvMedia"  -> "Suitable Extinguishing Media"
      [] m = "kvAppearance" -> "Appearance"
      [] m = "kvOdour"  -> "Odour"

MemberValue(m) ==
    CASE m = "kvName"   -> Str(<< "X" >>)
      [] m = "kvList"   -> ListOf(<< "Flammable liquid", "Oxidizing" >>)
      [] m = "kvDict"   -> DictOf(<< "Inhalation: fresh air" >>)
      [] m = "kvHealth" -> Str(<< "Skin irritation" >>)
      [] m = "kvError"  -> Str(<< "cannot extract" >>)
      [] m = "kvGHS"    ->
            ListOf(<< "Flammable liquid Category 3", "Skin irritation Category 2" >>)
      [] m = "kvGHSPhysical" -> ListOf(<< "Flammable liquid Category 3" >>)
      [] m = "kvHStmt"  -> ListOf(<< "H225", "H315" >>)
      [] m = "kvInhalation" -> Str(<< "fresh air" >>)
      [] m = "kvSkin"   -> EmptyStr
      [] m = "kvMedia"  -> Str(<< "foam" >>)
      [] m = "kvAppearance" -> Str(<< "liquid" >>)
      [] m = "kvOdour"  -> Str(<< "sweet" >>)

\* json.loads accepts an object { member ... } or an array [ value ... ];
\* prose and fences are not JSON, and neither is the empty string.
RECURSIVE IsJsonValue(_), IsJsonValueList(_)
IsJsonObject(s) ==
    /\ Len(s) >= 2
    /\ s[1] = "{"
    /\ s[Len(s)] = "}"
    /\ \A i \in 2..(Len(s) - 1) : s[i] \in Members
IsJsonValueList(s) ==
    \/ s = << >>
    \/ \E k \in 1..Len(s) :
          /\ IsJsonValue(SubSeq(s, 1, k))
          /\ IsJsonValueList(SubSeq(s, k + 1, Len(s)))
IsJsonValue(s) ==
    \/ IsJsonObject(s)
    \/ /\ Len(s) >= 2
       /\ s[1] = "["
       /\ s[Len(s)] = "]"
       /\ IsJsonValueList(SubSeq(s, 2, Len(s) - 1))

\* The dict of a JSON object: members in order, a later duplicate key wins.
RECURSIVE ObjectDict(_)
ObjectDict(ms) ==
    IF ms = << >> THEN EmptyDict
    ELSE LET m == ms[Len(ms)]
         IN  Put(ObjectDict(SubSeq(ms, 1, Len(ms) - 1)), MemberKey(m), MemberValue(m))

\* json.loads(s): a decode error, a dict, or a value that is not a dict.
json_loads(s) ==
    IF ~IsJsonValue(s) THEN [ok |-> FALSE, isdict |-> FALSE, dict |-> EmptyDict]
    ELSE IF IsJsonObject(s)
         THEN [ok |-> TRUE, isdict |-> TRUE,
               dict |-> ObjectDict(SubSeq(s, 2, Len(s) - 1))]
         ELSE [ok |-> TRUE, isdict |-> FALSE, dict |-> EmptyDict]

\* re.search(r'```json\s*(.*?)\s*```', s, re.DOTALL): the text between the
\* first ```json and the first ``` after it (the opener of a second block
\* starts with ``` too).
Fences == { "fo", "fc" }
HasFence(s) ==
    \E i \in 1..Len(s) : s[i] = "fo" /\ \E j \in (i + 1)..Len(s) : s[j] \in Fences
FenceContent(s) ==
    LET i == CHOOSE a \in 1..Len(s) :
                 s[a] = "fo" /\ \A b \in 1..(a - 1) : s[b] # "fo"
        j == CHOOSE a \in (i + 1)..Len(s) :
                 s[a] \in Fences /\ \A b \in (i + 1)..(a - 1) : s[b] \notin Fences
    IN  SubSeq(s, i + 1, j - 1)

\* re.search(r'({.*})', s, re.DOTALL): greedy, from the first "{" to the
\* last "}".
HasBraceSpan(s) ==
    \E i \in 1..Len(s) : s[i] = "{" /\ \E j \in (i + 1)..Len(s) : s[j] = "}"
BraceSpan(s) ==
    LET i == CHOOSE a \in 1..Len(s) : s[a] = "{" /\ \A b \in 1..(a - 1) : s[b] # "{"
        j == CHOOSE a \in 1..Len(s) : s[a] = "}" /\ \A b \in (a + 1)..Len(s) : s[b] # "}"
    IN  SubSeq(s, i, j)

--------------------------------------------------------------------------
(* extract_with_ai: parsing and post-processing (ai_extractor.py)          *)

\* Messages of the exceptions a provider call raises.
ExcMessages ==
    { "Error code: 429", "Too Many Requests", "Rate limit reached",
      "Connection timeout" }

\* Pieces of text that contain "429", and pieces whose lower-cased form
\* contains "too many requests" or "rate limit".
Has429(piece)             == piece \in { "Error code: 429" }
HasTooManyRequests(piece) == piece \in { "Too Many Requests" }
HasRateLimit(piece)       == piece \in { "Rate limit reached" }

\* str(e) of the UnboundLocalError and of the JSONDecodeError.
UNBOUND_MSG == "cannot access local variable 'response_text'"
DECODE_MSG  == "Expecting value"

max_retries  == 10
backoff_time == 10
INITIAL_DELAY == 3
SHORT_DELAY   == 2

\* The outcome of the parsing block: an error dict to return at once, or
\* response_data (a dict, or a JSON value that is not a dict).
ParseError(msg) == [err |-> TRUE,  isdict |-> TRUE,  dict |-> ErrorDict(msg)]
ParseData(j)    == [err |-> FALSE, isdict |-> j.isdict, dict |-> j.dict]
ParseNothing    == [err |-> FALSE, isdict |-> TRUE,  dict |-> EmptyDict]

\* A variant of the parsing block without the brace-span search.
parse_anthropic_no_span(bound, reply) ==
    IF ~bound
    THEN ParseError(<< "Failed to process Anthropic response: ", UNBOUND_MSG >>)
    ELSE IF HasFence(reply)
    THEN LET j == json_loads(FenceContent(reply))
         IN  IF j.ok THEN ParseData(j)
             ELSE ParseError(<< "Failed to process Anthropic response: ", DECODE_MSG >>)
    ELSE LET j == json_loads(reply)
         IN  IF j.ok THEN ParseData(j) ELSE ParseNothing

\* The "Process the response" block of the anthropic branch.  Reading the
\* unbound response_text and a json.loads failure of a fenced block are
\* caught by the block's "except Exception".
parse_anthropic(bound, reply) ==
    IF ~bound
    THEN ParseError(<< "Failed to process Anthropic response: ", UNBOUND_MSG >>)
    ELSE IF HasFence(reply)
    THEN LET j == json_loads(FenceContent(reply))
         IN  IF j.ok THEN ParseData(j)
             ELSE ParseError(<< "Failed to process Anthropic response: ", DECODE_MSG >>)
    ELSE LET j == json_loads(reply)
         IN  IF j.ok THEN ParseData(j)
             ELSE IF HasBraceSpan(reply)
             THEN LET k == json_loads(BraceSpan(reply))
                  IN  IF k.ok THEN ParseData(k)
                      ELSE ParseError(<< "Failed to parse AI response" >>)
             ELSE ParseNothing

\* The openai branch: json.loads of the whole reply inside the outer try.
parse_openai(reply) ==
    LET j == json_loads(reply)
    IN  IF j.ok THEN ParseData(j)
        ELSE ParseError(<< "AI extraction failed: ", DECODE_MSG >>)

\* "; ".join(str(item) for item in value)
RECURSIVE JoinWith(_, _)
JoinWith(items, sep) ==
    IF Len(items) = 0 THEN << >>
    ELSE IF Len(items) = 1 THEN << items[1] >>
    ELSE << items[1], sep >> \o JoinWith(Tail(items), sep)

\* A variant that leaves the reply's keys as they are.
fill_expected_skipped(d) == d

\* Add any missing fields with empty values.
fill_expected(d) ==
    [k \in DOMAIN d \cup Range(expected_fields) |->
        IF k \in DOMAIN d THEN d[k] ELSE EmptyStr]

\* Special case for 1-Methyl-2-pyrrolidone.
ai_override(d, t) ==
    IF ai_is_nmp(t)
    THEN Put(Put(d, "Health Hazards", Str(NMP_HEALTH_HAZARDS)), "Odour", Str(NMP_ODOUR))
    ELSE d

\* Convert any lists to string format.
join_lists(d) ==
    [k \in DOMAIN d |->
        IF d[k].t = "list" THEN Str(JoinWith(d[k].v, "; ")) ELSE d[k]]

\* Lines 199-225.  response_data[field] = "" on a value that is not a dict
\* raises TypeError outside every try block.
post_process(p, t) ==
    IF p.err THEN Ret(p.dict)
    ELSE IF ~p.isdict THEN Raised
    ELSE Ret(join_lists(ai_override(fill_expected(p.dict), t)))

(***************************************************************************)
(* Documents.  A document text is a sequence of pieces; the blank " " and  *)
(* the line break "\n" are pieces of their own, so whitespace handling is  *)
(* visible.  The documents of the model are built from the lines below.    *)
(* The tables that follow record, for each piece, the character-level      *)
(* facts the regular expressions of sds_extractor.py depend on.            *)
(***************************************************************************)
SP == " "
NL == "\n"

IsSpace(p) == p \in { SP, NL }

SDSLines ==
    << << "CAS No:", SP, "872-50-4" >>,
       << "CAS No:", SP, "64-17-5" >>,
       << "Flash point:", SP, "91°C" >>,
       << "Flash point:", SP, "13°C" >>,
       << "H315" >>,
       << "H225", SP, "Flammable liquid." >>,
       << "Odour:", SP, "fishy" >>,
       << "Packing group:", SP, "II" >>,
       << "SECTION 2:", SP, "Hazards" >>,
       << "872-50-4" >>,
       << "H315", ",", "H225" >>,
       << "NMPA" >>,
       << "Fluka" >> >>

\* Longest document of the local-path specification, in lines.
MaxLines == 3
\* Longest document handed to the model path, in lines.
MaxModelLines == 1

RECURSIVE JoinLines(_)
JoinLines(ls) ==
    IF ls = << >> THEN << >>
    ELSE IF Len(ls) = 1 THEN SDSLines[ls[1]]
    ELSE SDSLines[ls[1]] \o << NL >> \o JoinLines(Tail(ls))

TextsUpTo(n) ==
    { JoinLines(ls) : ls \in UNION { [1..k -> 1..Len(SDSLines)] : k \in 0..n } }

\* Pieces that end with a colon.
ColonLabels == { "CAS No:", "Flash point:", "Odour:", "Packing group:", "SECTION 2:" }
\* H\d{3} codes.
HCodes == { "H315", "H225" }
\* \d{1,7}-\d{2}-\d registry numbers.
RegistryNumbers == { "872-50-4", "64-17-5" }
\* Pieces that contain the degree sign followed by C.
DegCPieces == { "91°C", "13°C" }

\* The longest prefix of a piece made of digits and hyphens ([\d\-]+).
DigitDashPrefix(p) ==
    CASE p \in RegistryNumbers -> p
      [] p = "91°C" -> "91"
      [] p = "13°C" -> "13"
      [] OTHER -> ""

\* The longest prefix of a piece made of letters, digits and blanks.
AlnumPrefix(p) ==
    CASE p = "CAS No:" -> "CAS No"
      [] p = "Flash point:" -> "Flash point"
      [] p = "Odour:" -> "Odour"
      [] p = "Packing group:" -> "Packing group"
      [] p = "SECTION 2:" -> "SECTION 2"
      [] p = "Flammable liquid." -> "Flammable liquid"
      [] p = "872-50-4" -> "872"
      [] p = "64-17-5" -> "64"
      [] p = "91°C" -> "91"
      [] p = "13°C" -> "13"
      [] p = "," -> ""
      [] OTHER -> p

FullAlnum(p) == AlnumPrefix(p) = p
StartsWithLetter(p) == ~IsSpace(p) /\ p \notin RegistryNumbers \cup DegCPieces \cup { "," }
HasDigit(p) == p \in RegistryNumbers \cup DegCPieces \cup HCodes \cup { "SECTION 2:" }

\* The part of a piece before its first period ([^.\n]*).
BeforePeriod(p) == IF p = "Flammable liquid." THEN "Flammable liquid" ELSE p
HasPeriod(p) == BeforePeriod(p) # p

\* The first run of two or more (?:[A-Z][a-z]?\d*) groups inside a piece,
\* matched without regard to case; "" when the piece has none.
FormulaRun(p) ==
    CASE p = "CAS No:" -> "CAS"
      [] p = "Flash point:" -> "Flash"
      [] p = "Odour:" -> "Odour"
      [] p = "Packing group:" -> "Packing"
      [] p = "SECTION 2:" -> "SECTION"
      [] p = "Flammable liquid." -> "Flammable"
      [] p \in { "fishy", "Hazards", "II", "NMPA", "Fluka" } -> p
      [] OTHER -> ""

\* Number of characters of a piece.
PieceLen(p) ==
    CASE p = "CAS No:" -> 7 [] p = "CAS No" -> 6 [] p = "CAS" -> 3
      [] p = "872-50-4" -> 8 [] p = "872" -> 3 [] p = "64-17-5" -> 7
      [] p = "Flash point:" -> 12 [] p = "Flash point" -> 11 [] p = "Flash" -> 5
      [] p = "91°C" -> 4 [] p = "13°C" -> 4
      [] p = "H315" -> 4 [] p = "H225" -> 4 [] p = "NMPA" -> 4
      [] p = "Fluka" -> 5 [] p = "FLUKA" -> 5
      [] p = "Flammable liquid." -> 17 [] p = "Flammable liquid" -> 16
      [] p = "Flammable" -> 9
      [] p = "Odour:" -> 6 [] p = "Odour" -> 5 [] p = "fishy" -> 5
      [] p = "Packing group:" -> 14 [] p = "Packing group" -> 13
      [] p = "Packing" -> 7 [] p = "II" -> 2
      [] p = "SECTION 2:" -> 10 [] p = "SECTION 2" -> 9 [] p = "SECTION" -> 7
      [] p = "Hazards" -> 7 [] p = "amine" -> 5
      [] p = "Skin irritation" -> 15
      [] p = "Causes skin irritation" -> 22
      [] p = "; " -> 2 [] p = ", " -> 2 [] p = ": " -> 2 [] p = "..." -> 3
      [] p = SP -> 1 [] p = NL -> 1
      [] p = "word3" -> 3 [] p = "word4" -> 4 [] p = "word249" -> 249
      [] p = "word250" -> 250 [] p = "word497" -> 497 [] p = "word500" -> 500
      [] p = "?256" -> 256 [] p = "?128" -> 128 [] p = "?64" -> 64 [] p = "?32" -> 32
      [] p = "?16" -> 16 [] p = "?8" -> 8 [] p = "?4" -> 4 [] p = "?2" -> 2 [] p = "?1" -> 1
      [] p = NMP_HEALTH_HAZARDS[1] -> 133
      [] OTHER -> 1

RECURSIVE CharLen(_)
CharLen(v) == IF v = << >> THEN 0 ELSE PieceLen(Head(v)) + CharLen(Tail(v))

\* str.strip(): leading and trailing whitespace removed.
RECURSIVE LStrip(_), RStrip(_)
LStrip(v) == IF v # << >> /\ IsSpace(Head(v)) THEN LStrip(Tail(v)) ELSE v
RStrip(v) ==
    IF v # << >> /\ IsSpace(v[Len(v)]) THEN RStrip(SubSeq(v, 1, Len(v) - 1)) ELSE v
Strip(v) == RStrip(LStrip(v))

Min(S) == CHOOSE x \in S : \A y \in S : x <= y

\* Index of the first piece at or after i that is not whitespace (Len+1 if none).
SkipSpace(t, i) ==
    LET J == { j \in i..Len(t) : ~IsSpace(t[j]) }
    IN  IF J = {} THEN Len(t) + 1 ELSE Min(J)

\* Index just past the line that holds position i: the next line break, or Len+1.
LineEnd(t, i) ==
    LET J == { j \in i..Len(t) : t[j] = NL }
    IN  IF J = {} THEN Len(t) + 1 ELSE Min(J)

(***************************************************************************)
(* sds_extractor.extract_with_patterns.  A pattern is described by the     *)
(* pieces its literal anchor matches (labels) and by the shape of what     *)
(* follows the anchor (kind).  re.search finds the leftmost match, so the  *)
(* match of a pattern is the one at the smallest position.                 *)
(***************************************************************************)
Pat(kind, labels) == [kind |-> kind, labels |-> labels, need |-> {}]
PatNeed(kind, labels, need) == [kind |-> kind, labels |-> labels, need |-> need]
\* A pattern whose literal anchor occurs in no document of the model.
NeverMatches == Pat("never", {})
\* A company-name pattern without a capture group (lines 620-627), matched
\* without regard to case by the pieces in labels; name is the text of the
\* pattern.
PatCompany(name, labels) ==
    [kind |-> "company", labels |-> labels, need |-> {}, name |-> name]
Inert(n) == [i \in 1..n |-> NeverMatches]

\* The rest of the line from position s on ([^,\n]*).
RestOfLine(t, s) == IF s > Len(t) THEN << >> ELSE SubSeq(t, s, LineEnd(t, s) - 1)

\* [^.\n]* : the pieces of v up to its first period.
RECURSIVE CutAtPeriod(_)
CutAtPeriod(v) ==
    IF v = << >> THEN << >>
    ELSE IF HasPeriod(Head(v)) THEN << BeforePeriod(Head(v)) >>
    ELSE << Head(v) >> \o CutAtPeriod(Tail(v))

\* [^,\n\d°]*\w+ : the pieces of v up to the first piece holding a digit,
\* followed by the word characters that piece starts with.
RECURSIVE WordsToDigit(_)
WordsToDigit(v) ==
    IF v = << >> THEN << >>
    ELSE IF HasDigit(Head(v)) THEN << AlnumPrefix(Head(v)) >>
    ELSE << Head(v) >> \o WordsToDigit(Tail(v))

\* First colon after position i (0 when there is none).
FirstColon(t, i) ==
    LET C == { c \in (i+1)..Len(t) : t[c] \in ColonLabels }
    IN  IF C = {} THEN 0 ELSE Min(C)

\* Positions after c of a line break that is followed by optional
\* whitespace and a letter, or by another line break: (?:\n\s*[A-Z]|\n\n).
Terminators(t, c) ==
    { n \in (c+1)..Len(t) :
        /\ t[n] = NL
        /\ \/ SkipSpace(t, n + 1) <= Len(t) /\ StartsWithLetter(t[SkipSpace(t, n + 1)])
           \/ n + 1 <= Len(t) /\ t[n + 1] = NL }

\* [A-Z][A-Z0-9\s]{3,30}: the run of letters, digits and whitespace that
\* begins at piece j.  Documents of up to four lines keep every run below
\* the cap of 31 characters.
RECURSIVE RunFrom(_, _)
RunFrom(t, j) ==
    IF j > Len(t) THEN << >>
    ELSE IF IsSpace(t[j]) \/ FullAlnum(t[j]) THEN << t[j] >> \o RunFrom(t, j + 1)
    ELSE IF AlnumPrefix(t[j]) # "" THEN << AlnumPrefix(t[j]) >>
    ELSE << >>

\* Pieces whose first two characters are letters.
TwoLetterStart ==
    ColonLabels \cup { "Flammable liquid.", "fishy", "Hazards", "II", "NMPA", "Fluka" }

\* A run may begin at piece j: the letter must not be the first character of
\* the text (".{1,500}?"), and three more run characters must follow it.  In
\* the first piece the run begins at the second character.
CanStartRun(t, j) ==
    /\ StartsWithLetter(t[j])
    /\ IF j = 1
       THEN t[1] \in TwoLetterStart /\ CharLen(RunFrom(t, 1)) >= 5
       ELSE CharLen(RunFrom(t, j)) >= 4

RunStarts(t) == { j \in 1..Len(t) : CanStartRun(t, j) }

\* \n\s*(?:[A-Z][A-Z\s]+)\s*\n : the last of the consecutive lines made of
\* letters only that begin at piece j, each of them closed by a line break.
RECURSIVE LetterLinesEnd(_, _, _)
LetterLinesEnd(t, j, letters) ==
    IF j + 3 <= Len(t) /\ t[j + 2] \in letters /\ t[j + 3] = NL
    THEN LetterLinesEnd(t, j + 2, letters)
    ELSE j

MatchAt(pat, t, i) ==
    CASE pat.kind = "line" -> t[i] \in pat.labels
      [] pat.kind = "line_with" ->
            /\ t[i] \in pat.labels
            /\ \E k \in 1..Len(RestOfLine(t, SkipSpace(t, i + 1))) :
                   RestOfLine(t, SkipSpace(t, i + 1))[k] \in pat.need
      [] pat.kind = "words" ->
            t[i] \in pat.labels /\ RestOfLine(t, SkipSpace(t, i + 1)) # << >>
      [] pat.kind = "cas_label" ->
            /\ t[i] \in pat.labels
            /\ SkipSpace(t, i + 1) <= Len(t)
            /\ DigitDashPrefix(t[SkipSpace(t, i + 1)]) # ""
      [] pat.kind = "registry" -> t[i] \in RegistryNumbers
      [] pat.kind = "h_colon" ->
            /\ t[i] \in HCodes
            /\ FirstColon(t, i) # 0
            /\ Terminators(t, FirstColon(t, i)) # {}
      [] pat.kind = "h_rest" ->
            t[i] \in HCodes /\ i < Len(t) /\ IsSpace(t[i + 1])
      [] pat.kind = "formula" -> FormulaRun(t[i]) # ""
      [] pat.kind = "prefix_run" -> i = 1 /\ RunStarts(t) # {}
      [] pat.kind = "company" -> t[i] \in pat.labels
      [] pat.kind = "letter_lines" ->
            /\ t[i] = NL
            /\ i + 2 <= Len(t)
            /\ t[i + 1] \in pat.labels
            /\ t[i + 2] = NL
      [] OTHER -> FALSE

\* What the match at position i returns: group(1), or group(0) for a
\* pattern without a capture group.
Capture(pat, t, i) ==
    CASE pat.kind \in { "line", "line_with" } -> RestOfLine(t, SkipSpace(t, i + 1))
      [] pat.kind = "words" -> WordsToDigit(RestOfLine(t, SkipSpace(t, i + 1)))
      [] pat.kind = "cas_label" -> << DigitDashPrefix(t[SkipSpace(t, i + 1)]) >>
      [] pat.kind = "registry" -> << t[i] >>
      [] pat.kind = "h_colon" ->
            SubSeq(t, FirstColon(t, i) + 1, Min(Terminators(t, FirstColon(t, i))) - 1)
      [] pat.kind = "h_rest" -> CutAtPeriod(RestOfLine(t, SkipSpace(t, i + 1)))
      [] pat.kind = "formula" -> << FormulaRun(t[i]) >>
      [] pat.kind = "company" -> << t[i] >>
      [] pat.kind = "prefix_run" ->
            SubSeq(t, 1, Min(RunStarts(t)) - 1) \o RunFrom(t, Min(RunStarts(t)))
      [] pat.kind = "letter_lines" ->
            SubSeq(t, i + 1, LetterLinesEnd(t, i + 1, pat.labels))
      [] OTHER -> << >>

Matches(pat, t) == { i \in 1..Len(t) : MatchAt(pat, t, i) }

\* The first pattern of the list that matches decides, even when what it
\* captures is empty.  For a company-name pattern the function returns the
\* name it derives from the text of the pattern (lines 628-634), not what
\* the pattern matched.
extract_with_patterns(t, patterns) ==
    LET hits == { k \in 1..Len(patterns) : Matches(patterns[k], t) # {} }
    IN  IF hits = {} THEN << >>
        ELSE LET pat == patterns[Min(hits)]
             IN  IF pat.kind = "company" THEN << pat.name >>
                 ELSE Strip(Capture(pat, t, Min(Matches(pat, t))))

(***************************************************************************)
(* sds_extractor.extract_pattern_based.  Values of the local path are      *)
(* Python strings: sequences of pieces.                                    *)
(***************************************************************************)
HasAny(t, S) == \E i \in 1..Len(t) : t[i] \in S
When(c, piece) == IF c THEN << << piece >> >> ELSE << >>

\* "sep".join(items) for a list of strings.
RECURSIVE JoinStrs(_, _)
JoinStrs(items, sep) ==
    IF items = << >> THEN << >>
    ELSE IF Len(items) = 1 THEN items[1]
    ELSE items[1] \o << sep >> \o JoinStrs(Tail(items), sep)

\* The iteration order of a Python set of strings depends on the hash seed
\* of the process: `order' lists the candidate members in that order.
SetOrders == { o \in [1..2 -> HCodes] : o[1] # o[2] }
SetList(S, order) ==
    LET keep(x) == x \in S
        members == SelectSeq(order, keep)
    IN  [i \in 1..Len(members) |-> << members[i] >>]

health_category_patterns == Inert(29)
physical_category_patterns == Inert(15)
hazard_stmt_patterns ==
    << NeverMatches, NeverMatches, Pat("h_colon", HCodes), Pat("h_rest", HCodes) >>
flash_point_patterns ==
    << PatNeed("line_with", { "Flash point:" }, DegCPieces),
       PatNeed("line_with", { "Flash point:" },
               DegCPieces \cup { "CAS No:", "Packing group:", "SECTION 2:" }),
       PatNeed("line_with", { "Flash point:" }, {}),
       Pat("line", { "Flash point:" }) >>
appearance_patterns == Inert(4)
odor_patterns == << Pat("words", { "Odour:" }), NeverMatches >>
color_patterns == Inert(2)
packing_group_patterns == << Pat("line", { "Packing group:" }) >> \o Inert(3)
dangerous_goods_patterns == Inert(6)
storage_patterns == Inert(4)
\* Pieces that make a line of letters only.
LetterLines == { "NMPA", "Fluka" }
product_patterns ==
    Inert(8) \o << Pat("letter_lines", LetterLines), Pat("prefix_run", {}) >>
cas_patterns ==
    << Pat("cas_label", { "CAS No:" }), NeverMatches, NeverMatches, NeverMatches,
       Pat("registry", {}) >>
chem_id_patterns == Inert(8) \o << Pat("formula", {}), NeverMatches >>
precautionary_patterns == Inert(9)
first_aid_patterns == Inert(8)
firefighting_patterns == Inert(8)
supplier_patterns ==
    Inert(15) \o << PatCompany("FLUKA", { "Fluka" }) >> \o Inert(7)
env_patterns == Inert(9)
reg_patterns == Inert(9)

\* The text after the first line that carries a SECTION 2 header.
section_2_content(t) ==
    LET H == { i \in 1..Len(t) : t[i] = "SECTION 2:" /\ LineEnd(t, i) <= Len(t) }
    IN  IF H = {} THEN << >> ELSE SubSeq(t, LineEnd(t, Min(H)) + 1, Len(t))

\* Pieces that carry a "Category N" mention: none in these documents.
CategoryPieces == {}

health_category(t, order) ==
    LET health_cat == extract_with_patterns(t, health_category_patterns)
        isCat(p) == p \in CategoryPieces
        category_matches == SelectSeq(section_2_content(t), isCat)
    IN  IF health_cat = << >> /\ category_matches # << >>
        THEN JoinStrs(SetList(Range(category_matches), order), ", ")
        ELSE health_cat

\* re.findall(r'(H\d{3}(?:\+\d{3})*)', text)
h_codes(t) == LET isCode(p) == p \in HCodes IN SelectSeq(t, isCode)

hazard_mapping == [c \in { "H315" } |-> "Causes skin irritation"]

hazard_statement(t, order) ==
    LET found == extract_with_patterns(t, hazard_stmt_patterns)
        hazard_stmt ==
            IF found = << >> /\ h_codes(t) # << >>
            THEN JoinStrs(SetList(Range(h_codes(t)), order), ", ")
            ELSE found
        mapped(c) == c \in DOMAIN hazard_mapping
        described == SelectSeq(h_codes(t), mapped)
        hazard_descriptions ==
            [i \in 1..Len(described) |->
                << described[i], ": ", hazard_mapping[described[i]] >>]
    IN  IF hazard_descriptions # << >> /\ hazard_stmt = << >>
        THEN JoinStrs(hazard_descriptions, "; ")
        ELSE hazard_stmt

\* re.search(r'1-Methyl-2-pyrrolidone|Methyl-2-pyrrolidinone|NMP\b|872-50-4')
PatternTriggerPieces == { "872-50-4" }
pattern_is_nmp(t) == HasAny(t, PatternTriggerPieces)

health_hazards(t) ==
    IF pattern_is_nmp(t) THEN NMP_HEALTH_HAZARDS
    ELSE LET stot == HasAny(t, {})
             hazard_components ==
                 When(HasAny(t, {}), "Reproductive Toxicity")
                 \o When(HasAny(t, { "H315" }), "Skin irritation")
                 \o When(HasAny(t, {}), "Eye irritation")
                 \o When(stot /\ HasAny(t, {}),
                         "Specific target organ toxicity, single exposure, Respiratory tract irritation")
                 \o When(stot /\ ~HasAny(t, {}),
                         "Specific target organ toxicity, single exposure")
                 \o When(HasAny(t, {}), "Specific target organ toxicity, repeated exposure")
                 \o When(HasAny(t, {}) /\ ~stot, "Respiratory tract irritation")
         IN  JoinStrs(hazard_components, "; ")

physical_hazards(t) ==
    LET physical_components ==
            When(HasAny(t, { "H225", "Flammable liquid." }), "Flammable liquid")
            \o When(HasAny(t, {}), "Flammable solid")
            \o When(HasAny(t, {}), "Self-reactive")
            \o When(HasAny(t, {}), "Pyrophoric")
            \o When(HasAny(t, {}), "Self-heating")
            \o When(HasAny(t, {}), "In contact with water emits flammable gases")
            \o When(HasAny(t, {}), "Oxidizing")
            \o When(HasAny(t, {}), "Organic peroxide")
            \o When(HasAny(t, {}), "Corrosive to metals")
    IN  JoinStrs(physical_components, "; ")

\* An odour value that reads as a temperature is replaced by the first
\* known smell word of the text.
smell_words == << "amine", "fishy" >>
odour(t) ==
    IF pattern_is_nmp(t) THEN NMP_ODOUR
    ELSE LET odor == extract_with_patterns(t, odor_patterns)
             isTemp == \E k \in 1..Len(odor) : HasDigit(odor[k])
             known == { k \in 1..Len(smell_words) : HasAny(t, { smell_words[k] }) }
         IN  IF isTemp /\ known # {} THEN << smell_words[Min(known)] >> ELSE odor

\* A variant of the table without the entry that files the registry number
\* under Description.
field_mapping_without_cas ==
    << << "Supplier Information", "Supplier/Manufacturer" >>,
       << "Hazard Classification", "Hazards" >>,
       << "Physical Hazard", "Physical Hazards" >>,
       << "Chemical Identification", "of the substance or mixture" >>,
       << "Hazardous Substance", "or mixture and uses advised against" >>,
       << "Dangerous Goods Cl", "Dangerous Goods Class" >>,
       << "Environmental Hazards", "Hazards" >>,
       << "Regulatory Compliance Information", "Hazards" >>,
       << "Hazard Statement", "Health Hazards" >> >>

field_mapping ==
    << << "Supplier Information", "Supplier/Manufacturer" >>,
       << "Hazard Classification", "Hazards" >>,
       << "Physical Hazard", "Physical Hazards" >>,
       << "CAS Number", "Description" >>,
       << "Chemical Identification", "of the substance or mixture" >>,
       << "Hazardous Substance", "or mixture and uses advised against" >>,
       << "Dangerous Goods Cl", "Dangerous Goods Class" >>,
       << "Environmental Hazards", "Hazards" >>,
       << "Regulatory Compliance Information", "Hazards" >>,
       << "Hazard Statement", "Health Hazards" >> >>

default_values ==
    { "SDS Available",
      "Identification of the substance/mixture and of the company/undertaking",
      "Hazardous Substance", "or mixture and uses advised against",
      "Location", "Quantity", "Issue Date" }

\* Each mapping whose old field holds a non-empty value copies it over the
\* new field, in the order of the table.
RECURSIVE MapFields(_, _, _)
MapFields(d, mapping, k) ==
    IF k > Len(mapping) THEN d
    ELSE LET old == mapping[k][1]
             new == mapping[k][2]
         IN  MapFields(IF old \in DOMAIN d /\ d[old] # << >>
                       THEN Put(d, new, d[old]) ELSE d,
                       mapping, k + 1)

apply_field_mappings(d) ==
    LET m == MapFields(d, field_mapping, 1)
    IN  [k \in DOMAIN m \cup default_values |-> IF k \in DOMAIN m THEN m[k] ELSE << >>]

PatternKeys ==
    { "Health Category", "Physical Category", "Hazard Statement", "Health Hazards",
      "Physical Hazards", "Flash Point (Deg C)", "Appearance", "Odour", "Colour",
      "Issue Date", "SDS Available", "Packing Group", "Dangerous Goods Class",
      "Storage Use", "Product Name", "CAS Number", "Chemical Identification",
      "Precautionary Statements", "First Aid Measures", "Firefighting Measures",
      "Supplier Information", "Supplier/Manufacturer", "Environmental Hazards",
      "Regulatory Compliance Information" }

pattern_data(t, order) ==
    [k \in PatternKeys |->
        CASE k = "Health Category" -> health_category(t, order)
          [] k = "Physical Category" -> extract_with_patterns(t, physical_category_patterns)
          [] k = "Hazard Statement" -> hazard_statement(t, order)
          [] k = "Health Hazards" -> health_hazards(t)
          [] k = "Physical Hazards" -> physical_hazards(t)
          [] k = "Flash Point (Deg C)" -> extract_with_patterns(t, flash_point_patterns)
          [] k = "Appearance" -> extract_with_patterns(t, appearance_patterns)
          [] k = "Odour" -> odour(t)
          [] k = "Colour" -> extract_with_patterns(t, color_patterns)
          [] k = "Packing Group" -> extract_with_patterns(t, packing_group_patterns)
          [] k = "Dangerous Goods Class" -> extract_with_patterns(t, dangerous_goods_patterns)
          [] k = "Storage Use" -> extract_with_patterns(t, storage_patterns)
          [] k = "Product Name" -> extract_with_patterns(t, product_patterns)
          [] k = "CAS Number" -> extract_with_patterns(t, cas_patterns)
          [] k = "Chemical Identification" -> extract_with_patterns(t, chem_id_patterns)
          [] k = "Precautionary Statements" -> extract_with_patterns(t, precautionary_patterns)
          [] k = "First Aid Measures" -> extract_with_patterns(t, first_aid_patterns)
          [] k = "Firefighting Measures" -> extract_with_patterns(t, firefighting_patterns)
          [] k \in { "Supplier Information", "Supplier/Manufacturer" } ->
                extract_with_patterns(t, supplier_patterns)
          [] k = "Environmental Hazards" -> extract_with_patterns(t, env_patterns)
          [] k = "Regulatory Compliance Information" -> extract_with_patterns(t, reg_patterns)
          [] OTHER -> << >>]

extract_pattern_based(t, order) == apply_field_mappings(pattern_data(t, order))

(***************************************************************************)
(* sds_extractor.get_sections and extract_section_based.  Under            *)
(* re.MULTILINE the "$" of the section pattern matches at the end of every *)
(* line, so the content of a section is the one line after its header      *)
(* (empty when that line is a header itself).  A later header with the     *)
(* same number replaces an earlier one.                                    *)
(***************************************************************************)
SectionHeaders == { "SECTION 2:" }
SectionNumber(h) == "2"

get_sections(t) ==
    LET H == { i \in 1..Len(t) : t[i] \in SectionHeaders /\ LineEnd(t, i) <= Len(t) }
        last(n) == CHOOSE i \in H : SectionNumber(t[i]) = n
                        /\ \A j \in H : SectionNumber(t[j]) = n => j <= i
        content(i) ==
            LET s == LineEnd(t, i) + 1
            IN  IF t[s] \in SectionHeaders THEN << >> ELSE Strip(RestOfLine(t, s))
    IN  [n \in { SectionNumber(t[i]) : i \in H } |-> content(last(n))]

\* re.findall(r'H\d{3}(?:[+]\d{3})*[:\s]+(.*?)(?:\n|$)', section_content)
h_statements(c) ==
    LET I == { i \in 1..Len(c) : c[i] \in HCodes /\ i < Len(c) /\ IsSpace(c[i + 1]) }
    IN  IF I = {} THEN << >> ELSE << RestOfLine(c, SkipSpace(c, Min(I) + 1)) >>

extract_hazard_classification(c) ==
    LET hazard_class == extract_with_patterns(c, Inert(3))
    IN  IF hazard_class = << >> /\ h_statements(c) # << >>
        THEN JoinStrs(h_statements(c), ", ")
        ELSE hazard_class

\* Sections 1, 3, 4, 5, 7, 12 and 15 have no header in these documents, so
\* only the entry of section 2 is ever filled.
section_mapping == [n \in { "2" } |-> << "Hazard Classification" >>]

section_field_mapping ==
    << << "Supplier Information", "Supplier/Manufacturer" >>,
       << "Hazard Classification", "Hazards" >>,
       << "Precautionary Statements", "Response Statement" >> >>

extract_section_based(t) ==
    LET sections == get_sections(t)
        present == DOMAIN sections \cap DOMAIN section_mapping
        data == [k \in UNION { Range(section_mapping[n]) : n \in present } |->
                    extract_hazard_classification(sections["2"])]
    IN  MapFields(data, section_field_mapping, 1)

(***************************************************************************)
(* sds_extractor.extract_sds_data                                          *)
(***************************************************************************)
required_fields ==
    << "Number", "Product Name", "Supplier/Manufacturer", "Hazards", "Location",
       "SDS Available", "Issue Date", "Health Hazards", "Health Category",
       "Physical Hazards", "Physical Category", "Hazardous Substance",
       "Flash Point (Deg C)", "Dangerous Goods Class", "Description",
       "Packing Group", "Appearance", "Colour", "Odour",
       "First Aid Measures", "Firefighting Measures" >>

Methods == { "Automatic", "Pattern-based", "Section-based" }

\* re.sub(r'\s+', ' ', value).strip()
RECURSIVE Collapse(_)
Collapse(v) ==
    IF v = << >> THEN << >>
    ELSE IF IsSpace(Head(v)) THEN << SP >> \o Collapse(LStrip(Tail(v)))
    ELSE << Head(v) >> \o Collapse(Tail(v))

\* The characters kept of a piece that a slice cuts in the middle are written
\* as runs of 256, 128, ... 1 unnamed characters.
CutRuns == << "?256", "?128", "?64", "?32", "?16", "?8", "?4", "?2", "?1" >>
IsCutRun(p) == \E k \in 1..Len(CutRuns) : p = CutRuns[k]

RECURSIVE CutPiece(_, _)
CutPiece(n, k) ==
    IF k > Len(CutRuns) THEN << >>
    ELSE IF n >= PieceLen(CutRuns[k])
         THEN << CutRuns[k] >> \o CutPiece(n - PieceLen(CutRuns[k]), k + 1)
         ELSE CutPiece(n, k + 1)

\* value[:n]
RECURSIVE TakeChars(_, _)
TakeChars(v, n) ==
    IF v = << >> \/ n <= 0 THEN << >>
    ELSE IF PieceLen(Head(v)) <= n
         THEN << Head(v) >> \o TakeChars(Tail(v), n - PieceLen(Head(v)))
         ELSE CutPiece(n, 1)

MAX_VALUE_LEN == 500
KEPT_LEN == 497

\* A variant of the clean-up that keeps MAX_VALUE_LEN characters before the
\* marker.
clean_value_cut_at_limit(v) ==
    LET c == Strip(Collapse(v))
    IN  IF CharLen(c) > MAX_VALUE_LEN THEN TakeChars(c, MAX_VALUE_LEN) \o << "..." >> ELSE c

\* A variant of the clean-up that never cuts.
clean_value_uncut(v) == Strip(Collapse(v))

clean_value(v) ==
    LET c == Strip(Collapse(v))
    IN  IF CharLen(c) > MAX_VALUE_LEN THEN TakeChars(c, KEPT_LEN) \o << "..." >> ELSE c

MEANINGFUL_LEN == 3

\* A variant that reports a field it did not find as "Not found".
sds_record_not_found(pd, sd, method) ==
    LET merged(f) ==
            IF CharLen(Strip(Get(pd, f, << >>))) > MEANINGFUL_LEN THEN Get(pd, f, << >>)
            ELSE IF CharLen(Strip(Get(sd, f, << >>))) > MEANINGFUL_LEN THEN Get(sd, f, << >>)
            ELSE << >>
        chosen(f) ==
            CASE method = "Automatic" -> merged(f)
              [] method = "Section-based" -> Get(sd, f, << >>)
              [] OTHER -> Get(pd, f, << >>)
    IN  [f \in Range(required_fields) |->
            Str(IF chosen(f) = << >> THEN << "Not found" >> ELSE clean_value(chosen(f)))]

\* A variant of the record in which Automatic mode decides once for the whole
\* record: the pattern result when any of its values is meaningful.
sds_record_whole_result(pd, sd, method) ==
    LET meaningful(d) ==
            \E f \in Range(required_fields) :
                CharLen(Strip(Get(d, f, << >>))) > MEANINGFUL_LEN
        merged(f) ==
            IF meaningful(pd) THEN Get(pd, f, << >>)
            ELSE IF meaningful(sd) THEN Get(sd, f, << >>)
            ELSE << >>
    IN  [f \in Range(required_fields) |->
            Str(clean_value(CASE method = "Automatic" -> merged(f)
                              [] method = "Section-based" -> Get(sd, f, << >>)
                              [] OTHER -> Get(pd, f, << >>)))]

\* A variant of the record in which Automatic mode asks the section result
\* first.
sds_record_section_first(pd, sd, method) ==
    LET merged(f) ==
            IF CharLen(Strip(Get(sd, f, << >>))) > MEANINGFUL_LEN THEN Get(sd, f, << >>)
            ELSE IF CharLen(Strip(Get(pd, f, << >>))) > MEANINGFUL_LEN THEN Get(pd, f, << >>)
            ELSE << >>
    IN  [f \in Range(required_fields) |->
            Str(clean_value(CASE method = "Automatic" -> merged(f)
                              [] method = "Section-based" -> Get(sd, f, << >>)
                              [] OTHER -> Get(pd, f, << >>)))]

\* Lines 27-66: the record over the register fields built from the two
\* results, every value cleaned.
sds_record(pd, sd, method) ==
    LET merged(f) ==
            IF CharLen(Strip(Get(pd, f, << >>))) > MEANINGFUL_LEN THEN Get(pd, f, << >>)
            ELSE IF CharLen(Strip(Get(sd, f, << >>))) > MEANINGFUL_LEN THEN Get(sd, f, << >>)
            ELSE << >>
    IN  [f \in Range(required_fields) |->
            Str(clean_value(CASE method = "Automatic" -> merged(f)
                              [] method = "Section-based" -> Get(sd, f, << >>)
                              [] OTHER -> Get(pd, f, << >>)))]

\* Each extractor runs once; its result is bound before the record is built.
extract_sds_data(t, method, order) ==
    CHOOSE r \in { sds_record(pd, sd, method) :
                      pd \in { extract_pattern_based(t, order) },
                      sd \in { extract_section_based(t) } } : TRUE

(***************************************************************************)
(* The state machine.  One top-level call runs at a time (the engine is    *)
(* single-threaded and synchronous); Reset returns to the idle state so    *)
(* that calls follow one another in one process.                           *)
(***************************************************************************)
Services == { "openai", "anthropic", "none" }

(***************************************************************************)
(* Module initialisation of ai_extractor (lines 18-42).  A key is unset    *)
(* (None), empty or set; a package is installed or its import raises       *)
(* ImportError.  A client constructor that raises anything else aborts the *)
(* import of the module, and no call is ever made.                         *)
(***************************************************************************)
KeyValues == { "unset", "empty", "set" }
Environs ==
    [OPENAI_API_KEY : KeyValues, openai_installed : BOOLEAN,
     ANTHROPIC_API_KEY : KeyValues, anthropic_installed : BOOLEAN]

\* `if KEY:` is true of a key that is set and not empty.
KeyGiven(k) == k = "set"

NO_CLIENT == "None"

\* A variant that keeps the service name when the package is missing.
module_init_names_first(env) ==
    IF KeyGiven(env.OPENAI_API_KEY)
    THEN [ai_client |-> IF env.openai_installed THEN "OpenAI" ELSE NO_CLIENT,
          ai_service |-> "openai"]
    ELSE IF KeyGiven(env.ANTHROPIC_API_KEY)
    THEN [ai_client |-> IF env.anthropic_installed THEN "Anthropic" ELSE NO_CLIENT,
          ai_service |-> "anthropic"]
    ELSE [ai_client |-> NO_CLIENT, ai_service |-> "none"]

\* Lines 23-42: the bindings of ai_client and ai_service after the import.
module_init(env) ==
    LET openai ==
            IF KeyGiven(env.OPENAI_API_KEY) /\ env.openai_installed
            THEN [ai_client |-> "OpenAI", ai_service |-> "openai"]
            ELSE [ai_client |-> NO_CLIENT, ai_service |-> "none"]
    IN  IF openai.ai_client = NO_CLIENT /\ KeyGiven(env.ANTHROPIC_API_KEY)
           /\ env.anthropic_installed
        THEN [ai_client |-> "Anthropic", ai_service |-> "anthropic"]
        ELSE openai

\* The modules have been imported in one of the environments E.
ModuleLoaded(E) ==
    /\ environ \in E
    /\ ai_client = module_init(environ).ai_client
    /\ ai_service = module_init(environ).ai_service

\* One environment for each outcome of the initialisation.
MainEnvirons ==
    { [OPENAI_API_KEY |-> "set", openai_installed |-> TRUE,
       ANTHROPIC_API_KEY |-> "set", anthropic_installed |-> TRUE],
      [OPENAI_API_KEY |-> "unset", openai_installed |-> TRUE,
       ANTHROPIC_API_KEY |-> "set", anthropic_installed |-> TRUE],
      [OPENAI_API_KEY |-> "unset", openai_installed |-> TRUE,
       ANTHROPIC_API_KEY |-> "unset", anthropic_installed |-> TRUE] }

\* Provider replies of the main specification.
ReplyFenced == << "p", "fo", "{", "kvName", "}", "fc", "p" >>
ReplyProse  == << "p" >>
ReplyArray  == << "[", "]" >>
ReplyError  == << "{", "kvError", "}" >>
ReplyRich   == << "{", "kvName", "kvList", "kvDict", "}" >>
Replies == { ReplyFenced, ReplyProse, ReplyArray, ReplyError, ReplyRich }

ModelTexts == TextsUpTo(MaxModelLines)

FILENAME    == "sds.pdf"
ACQUIRE_MSG == "cannot read PDF"

\* Local variables of a fresh extract_with_ai frame.
StartAi(l) ==
    /\ ai_pc' = "entry"
    /\ ai_light' = l
    /\ retry_count' = 0
    /\ wait_time' = 0
    /\ sleeps' = 0
    /\ response_bound' = FALSE
    /\ response_text' = << >>
    /\ last_exc' = ""
    /\ all_rate_limit' = TRUE
    /\ calls' = 0
    /\ ai_ret' = NoResult

\* No extract_with_ai frame.
ClearAi ==
    /\ ai_pc' = "idle"
    /\ ai_light' = FALSE
    /\ retry_count' = 0
    /\ wait_time' = 0
    /\ sleeps' = 0
    /\ response_bound' = FALSE
    /\ response_text' = << >>
    /\ last_exc' = ""
    /\ all_rate_limit' = TRUE
    /\ calls' = 0
    /\ ai_ret' = NoResult

ClearMl ==
    /\ h_pc' = "idle"
    /\ h_results' = EmptyDict
    /\ results' = EmptyDict
    /\ first_aid_data' = EmptyDict
    /\ firefighting_data' = EmptyDict
    /\ hazard_data' = EmptyDict

\* The wrapper's test for a rate-limit signal (line 160).
is_rate_limit(e) == Has429(e) \/ HasTooManyRequests(e)

(************************ extract_with_ai **********************************)
\* A variant that sleeps before it looks for the client.
AiEntry_sleeps_first ==
    /\ ai_pc = "entry"
    /\ wait_time' = INITIAL_DELAY
    /\ sleeps' = sleeps + 1
    /\ IF ai_client = NO_CLIENT
       THEN /\ ai_ret' = Ret(ErrorDict(<< "No AI API keys available" >>))
            /\ ai_pc' = "done"
       ELSE IF ai_service = "openai"
       THEN ai_pc' = "openai" /\ UNCHANGED ai_ret
       ELSE ai_pc' = "loop" /\ UNCHANGED ai_ret
    /\ UNCHANGED << modVars, sdsVars, pc, callVars, pdfVars, mlVars, provider_called, result,
                    ai_light, retry_count, response_bound, response_text, last_exc,
                    all_rate_limit, calls >>

\* Lines 69-135: no client, or the branch of the active service.  The
\* light_mode argument is not read anywhere in the function.
AiEntry ==
    /\ ai_pc = "entry"
    /\ IF ai_client = NO_CLIENT
       THEN /\ ai_ret' = Ret(ErrorDict(<< "No AI API keys available" >>))
            /\ ai_pc' = "done"
            /\ UNCHANGED << wait_time, sleeps >>
       ELSE IF ai_service = "openai"
       THEN ai_pc' = "openai" /\ UNCHANGED << ai_ret, wait_time, sleeps >>
       ELSE /\ ai_pc' = "loop"
            /\ wait_time' = INITIAL_DELAY
            /\ sleeps' = sleeps + 1
            /\ UNCHANGED ai_ret
    /\ UNCHANGED << modVars, sdsVars, pc, callVars, pdfVars, mlVars, provider_called, result,
                    ai_light, retry_count, response_bound, response_text, last_exc,
                    all_rate_limit, calls >>

\* A variant of the successful attempt without the break of line 153.
AiAttemptOk_no_break ==
    /\ ai_pc = "loop"
    /\ retry_count < max_retries
    /\ \E reply \in Replies : response_text' = reply
    /\ response_bound' = TRUE
    /\ all_rate_limit' = FALSE
    /\ calls' = calls + 1
    /\ provider_called' = TRUE
    /\ ai_pc' = "loop"
    /\ UNCHANGED << modVars, sdsVars, pc, callVars, pdfVars, mlVars, result,
                    ai_light, retry_count, wait_time, sleeps, last_exc, ai_ret >>

\* Lines 137-153: an attempt that gets a reply leaves the loop.
AiAttemptOk ==
    /\ ai_pc = "loop"
    /\ retry_count < max_retries
    /\ \E reply \in Replies : response_text' = reply
    /\ response_bound' = TRUE
    /\ all_rate_limit' = FALSE
    /\ calls' = calls + 1
    /\ provider_called' = TRUE
    /\ ai_pc' = "parse"
    /\ UNCHANGED << modVars, sdsVars, pc, callVars, pdfVars, mlVars, result,
                    ai_light, retry_count, wait_time, sleeps, last_exc, ai_ret >>

\* A variant whose rate-limit delay does not grow with the attempt number.
AiAttemptFails_flat_backoff ==
    /\ ai_pc = "loop"
    /\ retry_count < max_retries
    /\ \E e \in ExcMessages :
          /\ last_exc' = e
          /\ all_rate_limit' = (all_rate_limit /\ is_rate_limit(e))
          /\ IF is_rate_limit(e)
             THEN /\ wait_time' = backoff_time
                  /\ sleeps' = sleeps + 1
                  /\ ai_pc' = "loop"
                  /\ UNCHANGED ai_ret
             ELSE IF retry_count + 1 < max_retries
             THEN /\ wait_time' = SHORT_DELAY
                  /\ sleeps' = sleeps + 1
                  /\ ai_pc' = "loop"
                  /\ UNCHANGED ai_ret
             ELSE /\ ai_ret' = Ret(ErrorDict(<< "Anthropic API extraction failed after ",
                                                ToString(max_retries), " attempts: ", e >>))
                  /\ ai_pc' = "done"
                  /\ UNCHANGED << wait_time, sleeps >>
    /\ retry_count' = retry_count + 1
    /\ calls' = calls + 1
    /\ provider_called' = TRUE
    /\ UNCHANGED << modVars, sdsVars, pc, callVars, pdfVars, mlVars, result,
                    ai_light, response_bound, response_text >>

\* Lines 155-170: an attempt that raises.  A rate-limit signal always sleeps
\* backoff_time * retry_count; another failure sleeps 2 s unless it was the
\* last attempt, which returns the error.
AiAttemptFails ==
    /\ ai_pc = "loop"
    /\ retry_count < max_retries
    /\ \E e \in ExcMessages :
          /\ last_exc' = e
          /\ all_rate_limit' = (all_rate_limit /\ is_rate_limit(e))
          /\ IF is_rate_limit(e)
             THEN /\ wait_time' = backoff_time * (retry_count + 1)
                  /\ sleeps' = sleeps + 1
                  /\ ai_pc' = "loop"
                  /\ UNCHANGED ai_ret
             ELSE IF retry_count + 1 < max_retries
             THEN /\ wait_time' = SHORT_DELAY
                  /\ sleeps' = sleeps + 1
                  /\ ai_pc' = "loop"
                  /\ UNCHANGED ai_ret
             ELSE /\ ai_ret' = Ret(ErrorDict(<< "Anthropic API extraction failed after ",
                                                ToString(max_retries), " attempts: ", e >>))
                  /\ ai_pc' = "done"
                  /\ UNCHANGED << wait_time, sleeps >>
    /\ retry_count' = retry_count + 1
    /\ calls' = calls + 1
    /\ provider_called' = TRUE
    /\ UNCHANGED << modVars, sdsVars, pc, callVars, pdfVars, mlVars, result,
                    ai_light, response_bound, response_text >>

\* Line 137: the loop condition fails after max_retries failures.
AiLoopExit ==
    /\ ai_pc = "loop"
    /\ retry_count >= max_retries
    /\ ai_pc' = "parse"
    /\ UNCHANGED << modVars, sdsVars, pc, callVars, pdfVars, mlVars, provider_called, result,
                    ai_light, retry_count, wait_time, sleeps, response_bound, response_text,
                    last_exc, all_rate_limit, calls, ai_ret >>

\* Lines 172-225 of the anthropic branch.
AiParse ==
    /\ ai_pc = "parse"
    /\ ai_ret' = post_process(parse_anthropic(response_bound, response_text), text)
    /\ ai_pc' = "done"
    /\ UNCHANGED << modVars, sdsVars, pc, callVars, pdfVars, mlVars, provider_called, result,
                    ai_light, retry_count, wait_time, sleeps, response_bound, response_text,
                    last_exc, all_rate_limit, calls >>

\* Lines 114-126 and 199-225: the single openai call returns a reply.
AiOpenAIOk ==
    /\ ai_pc = "openai"
    /\ \E reply \in Replies :
          /\ response_text' = reply
          /\ ai_ret' = post_process(parse_openai(reply), text)
    /\ response_bound' = TRUE
    /\ all_rate_limit' = FALSE
    /\ calls' = calls + 1
    /\ provider_called' = TRUE
    /\ ai_pc' = "done"
    /\ UNCHANGED << modVars, sdsVars, pc, callVars, pdfVars, mlVars, result,
                    ai_light, retry_count, wait_time, sleeps, last_exc >>

\* Lines 114-123 and 195-197: the single openai call raises.
AiOpenAIFails ==
    /\ ai_pc = "openai"
    /\ \E e \in ExcMessages :
          /\ last_exc' = e
          /\ all_rate_limit' = (all_rate_limit /\ is_rate_limit(e))
          /\ ai_ret' = Ret(ErrorDict(<< "AI extraction failed: ", e >>))
    /\ calls' = calls + 1
    /\ provider_called' = TRUE
    /\ ai_pc' = "done"
    /\ UNCHANGED << modVars, sdsVars, pc, callVars, pdfVars, mlVars, result,
                    ai_light, retry_count, wait_time, sleeps, response_bound, response_text >>

(************************ top-level calls **********************************)
NewCall(f, t, l, s, m) ==
    /\ call' = f
    /\ text' = t
    /\ light_mode' = l
    /\ strategy' = s
    /\ sds_method' = m
    /\ from_pdf' = (f = "extract_from_pdf_with_ml")
    /\ provider_called' = FALSE
    /\ IF f = "extract_sds_data" THEN TRUE ELSE UNCHANGED sdsVars
    /\ UNCHANGED modVars

Call_extract_with_ai ==
    /\ pc = "idle"
    /\ \E t \in ModelTexts, l \in BOOLEAN :
          NewCall("extract_with_ai", t, l, "", "") /\ StartAi(l)
    /\ pc' = "ai_top"
    /\ result' = NoResult
    /\ UNCHANGED << pdfVars, mlVars >>

Return_extract_with_ai ==
    /\ pc = "ai_top"
    /\ ai_pc = "done"
    /\ result' = ai_ret
    /\ pc' = "done"
    /\ UNCHANGED << modVars, sdsVars, callVars, pdfVars, aiVars, mlVars, provider_called >>

\* The caller takes the result; the next call starts from a clean frame.
Reset ==
    /\ pc = "done"
    /\ pc' = "idle"
    /\ call' = ""
    /\ text' = << >>
    /\ light_mode' = FALSE
    /\ strategy' = ""
    /\ sds_method' = ""
    /\ from_pdf' = FALSE
    /\ pdf_light' = FALSE
    /\ nested' = 0
    /\ ClearAi
    /\ ClearMl
    /\ provider_called' = FALSE
    /\ result' = NoResult
    /\ sds_pattern_data' = << >>
    /\ sds_section_data' = << >>
    /\ UNCHANGED modVars


(************************ extract_from_pdf_with_ai *************************)
\* Lines 273-274: the fallback check on the returned error text.  A value
\* that is not a str has no lower() and raises into the except clause.
mentions_rate_limit(v) ==
    \E i \in 1..Len(v.v) : HasRateLimit(v.v[i]) \/ Has429(v.v[i])

\* Lines 277 and 288: the function calls itself with light_mode=True and
\* returns whatever that call returns.
NestedLightCall ==
    /\ nested' = nested + 1
    /\ pdf_light' = TRUE
    /\ pc' = "pdf_acquire"
    /\ UNCHANGED result

Call_extract_from_pdf_with_ai ==
    /\ pc = "idle"
    /\ \E t \in ModelTexts, l \in BOOLEAN :
          NewCall("extract_from_pdf_with_ai", t, l, "", "") /\ pdf_light' = l
    /\ nested' = 0
    /\ pc' = "pdf_acquire"
    /\ result' = NoResult
    /\ UNCHANGED << aiVars, mlVars >>

\* A variant whose handler does not look at light_mode before it calls the
\* function again.
PdfAcquireFails_retries_in_light_mode ==
    /\ pc = "pdf_acquire"
    /\ IF nested < 2
       THEN NestedLightCall
       ELSE /\ result' = Ret(ErrorDict(<< "PDF extraction failed: ", ACQUIRE_MSG >>))
            /\ pc' = "done"
            /\ UNCHANGED pdfVars
    /\ UNCHANGED << modVars, sdsVars, callVars, aiVars, mlVars, provider_called >>

\* Lines 244-247 raise (unreadable file, OCR failure); lines 281-292.
PdfAcquireFails ==
    /\ pc = "pdf_acquire"
    /\ IF ~pdf_light
       THEN NestedLightCall
       ELSE /\ result' = Ret(ErrorDict(<< "PDF extraction failed: ", ACQUIRE_MSG >>))
            /\ pc' = "done"
            /\ UNCHANGED pdfVars
    /\ UNCHANGED << modVars, sdsVars, callVars, aiVars, mlVars, provider_called >>

\* Lines 254-267: light mode returns the Pattern-based record with the
\* source filename added.
PdfLightMode ==
    /\ pc = "pdf_acquire"
    /\ pdf_light
    /\ result' = Ret(Put(extract_sds_data(text, "Pattern-based", hash_order),
                          "Source File", Str(<< FILENAME >>)))
    /\ pc' = "done"
    /\ UNCHANGED << modVars, sdsVars, callVars, pdfVars, aiVars, mlVars, provider_called >>

\* Line 270: extract_with_ai(text, filename), light_mode left at its default.
PdfLiveCall ==
    /\ pc = "pdf_acquire"
    /\ ~pdf_light
    /\ StartAi(FALSE)
    /\ pc' = "pdf_ai"
    /\ UNCHANGED << modVars, sdsVars, callVars, pdfVars, mlVars, provider_called, result >>

\* Lines 273-277: the returned error mentions a rate limit.
PdfRateLimitFallback ==
    /\ pc = "pdf_ai"
    /\ ai_pc = "done"
    /\ HasError(ai_ret)
    /\ ai_ret.rec["error"].t = "str"
    /\ mentions_rate_limit(ai_ret.rec["error"])
    /\ NestedLightCall
    /\ UNCHANGED << modVars, sdsVars, callVars, aiVars, mlVars, provider_called >>

\* Lines 281-288: extract_with_ai or the check itself raised.
PdfExceptionFallback ==
    /\ pc = "pdf_ai"
    /\ ai_pc = "done"
    /\ \/ ai_ret.kind = "raise"
       \/ HasError(ai_ret) /\ ai_ret.rec["error"].t # "str"
    /\ NestedLightCall
    /\ UNCHANGED << modVars, sdsVars, callVars, aiVars, mlVars, provider_called >>

\* Line 279: the live result is returned as it is.
PdfReturn ==
    /\ pc = "pdf_ai"
    /\ ai_pc = "done"
    /\ ai_ret.kind = "ret"
    /\ HasError(ai_ret) =>
          /\ ai_ret.rec["error"].t = "str"
          /\ ~mentions_rate_limit(ai_ret.rec["error"])
    /\ result' = ai_ret
    /\ pc' = "done"
    /\ UNCHANGED << modVars, sdsVars, callVars, pdfVars, aiVars, mlVars, provider_called >>

(************************ extract_sds_data *********************************)
SdsDataCall(T) ==
    /\ pc = "idle"
    /\ \E t \in T, m \in Methods :
          /\ NewCall("extract_sds_data", t, FALSE, "", m)
          /\ sds_pattern_data' =
                IF m = "Section-based" THEN << >> ELSE extract_pattern_based(t, hash_order)
          /\ sds_section_data' =
                IF m = "Pattern-based" THEN << >> ELSE extract_section_based(t)
    /\ pc' = "sds_merge"
    /\ result' = NoResult
    /\ UNCHANGED << pdfVars, aiVars, mlVars >>

\* Lines 24-68: the record is built from the results of the extractors,
\* cleaned and returned.
SdsMerge ==
    /\ pc = "sds_merge"
    /\ result' = Ret(sds_record(sds_pattern_data, sds_section_data, sds_method))
    /\ pc' = "done"
    /\ UNCHANGED << modVars, sdsVars, callVars, pdfVars, aiVars, mlVars,
                    provider_called >>

Call_extract_sds_data == SdsDataCall(ModelTexts)


--------------------------------------------------------------------------
(* ml_extractor.py: the section extractors and the merges of the strategies *)

EXTRACTION_STRATEGIES ==
    { "direct_extraction", "hierarchical_extraction", "specialized_extraction",
      "multi_pass_extraction" }

\* The reply of a section extractor that holds the JSON object asked for.
SectionObject(x) ==
    CASE x = "identification" -> << "{", "kvName", "}" >>
      [] x = "hazard"         -> << "{", "kvGHS", "kvHStmt", "}" >>
      [] x = "first_aid"      -> << "{", "kvInhalation", "kvSkin", "}" >>
      [] x = "firefighting"   -> << "{", "kvMedia", "}" >>
      [] x = "physical"       -> << "{", "kvAppearance", "kvOdour", "}" >>
      [] x = "sections"       -> << "{", "kvDict", "}" >>

ReplyBadFence == << "fo", "p", "fc" >>
\* The first-aid object of a document that has no first-aid text: the
\* sub-heading asked for, left blank.
SectionBlank == << "{", "kvSkin", "}" >>
SECTION_EXC == "Connection timeout"

\* What one provider call of a section extractor does: it raises, or it
\* returns an object, prose without JSON, or a fenced block that is not JSON.
\* The hazard object of a document without health hazards lists physical
\* classifications only.
SectionOutcomes(x) ==
    { [raised |-> FALSE, reply |-> r] :
          r \in { SectionObject(x), ReplyProse, ReplyBadFence } }
    \cup { [raised |-> TRUE, reply |-> << >>] }
    \cup { [raised |-> FALSE, reply |-> SectionBlank] : b \in { x } \cap { "first_aid" } }
    \cup { [raised |-> FALSE, reply |-> << "{", "kvGHSPhysical", "}" >>] :
               b \in { x } \cap { "hazard" } }

\* specialized_hazard_extraction, specialized_first_aid_extraction,
\* specialized_firefighting_extraction, extract_identification_info and
\* extract_physical_chemical_properties share one body: every exception,
\* a json.loads failure of the openai reply or of a fenced block included,
\* becomes {"error": str(e)}; an anthropic reply without JSON leaves {}.
section_extract(service, o) ==
    IF service = "none" THEN ErrorDict(<< "No AI service available" >>)
    ELSE IF o.raised THEN ErrorDict(<< SECTION_EXC >>)
    ELSE IF service = "openai"
    THEN LET j == json_loads(o.reply)
         IN  IF j.ok THEN j.dict ELSE ErrorDict(<< DECODE_MSG >>)
    ELSE IF HasFence(o.reply)
    THEN LET j == json_loads(FenceContent(o.reply))
         IN  IF j.ok THEN j.dict ELSE ErrorDict(<< DECODE_MSG >>)
    ELSE LET j == json_loads(o.reply)
         IN  IF j.ok THEN j.dict
             ELSE IF HasBraceSpan(o.reply) /\ json_loads(BraceSpan(o.reply)).ok
             THEN json_loads(BraceSpan(o.reply)).dict
             ELSE EmptyDict

\* The section extractors a caller may invoke on their own.
SectionExtractors ==
    [hazard |-> "specialized_hazard_extraction",
     first_aid |-> "specialized_first_aid_extraction",
     firefighting |-> "specialized_firefighting_extraction",
     identification |-> "extract_identification_info",
     physical |-> "extract_physical_chemical_properties"]

\* A caller invokes one section extractor: the client test, one provider
\* request, the parsing of its reply, the return.
Call_section_extractor ==
    /\ pc = "idle"
    /\ \E x \in DOMAIN SectionExtractors, t \in ModelTexts :
          \E o \in SectionOutcomes(x) :
             /\ call' = SectionExtractors[x]
             /\ text' = t
             /\ result' = Ret(section_extract(ai_service, o))
    /\ provider_called' = (ai_client # NO_CLIENT)
    /\ pc' = "done"
    /\ UNCHANGED << modVars, sdsVars, light_mode, strategy, sds_method, from_pdf,
                    pdfVars, aiVars, mlVars >>

\* Lines 341-375: the section-position request of hierarchical_extraction.
\* Its result is not used; TRUE when the request or its parsing raises.
sections_raises(service, o) ==
    \/ o.raised
    \/ service = "openai" /\ ~json_loads(o.reply).ok
    \/ service = "anthropic" /\ HasFence(o.reply) /\ ~json_loads(FenceContent(o.reply)).ok

\* `data and "error" not in data'
Usable(data) == data # EmptyDict /\ "error" \notin DOMAIN data

\* Keys of the section objects in the order the replies list them.
SectionKeys ==
    << "Inhalation", "Skin Contact", "Suitable Extinguishing Media" >>

\* "; ".join([f"{k}: {v}" for k, v in data.items() if v])
dict_str(data) ==
    LET shown(k) == k \in DOMAIN data /\ Truthy(data[k])
        keys == SelectSeq(SectionKeys, shown)
    IN  JoinStrs([i \in 1..Len(keys) |-> << keys[i], ": " >> \o data[keys[i]].v], "; ")

\* Lines 398-404, 408-414, 620-632 and 753-766.
fold_measures(res, field, data) ==
    IF Usable(data) THEN Put(res, field, Str(dict_str(data))) ELSE res

JoinedIfList(val) == IF val.t = "list" THEN Str(JoinWith(val.v, "; ")) ELSE val

\* Lines 382-394.
fold_hazard(res, data) ==
    IF ~Usable(data) THEN res
    ELSE LET r1 == IF "GHS Classification" \in DOMAIN data
                   THEN Put(res, "Health Hazards", data["GHS Classification"]) ELSE res
             r2 == IF "Hazard Statements" \in DOMAIN data
                   THEN Put(r1, "Hazard Statements", JoinedIfList(data["Hazard Statements"]))
                   ELSE r1
         IN  IF "Pictograms" \in DOMAIN data
             THEN Put(r2, "Pictograms", JoinedIfList(data["Pictograms"])) ELSE r2

Missing(res, k) == k \notin DOMAIN res \/ ~Truthy(res[k])

\* Lines 615-617: only fields that are missing or empty are taken over.
fill_missing(res, extra) ==
    [k \in DOMAIN res \cup DOMAIN extra |->
        IF k \in DOMAIN extra /\ Missing(res, k) THEN extra[k] ELSE res[k]]

\* Lines 418-421 and 689-692.
fold_physical(res, data) == IF Usable(data) THEN fill_missing(res, data) ELSE res

\* GHS classification entries: the health and physical terms their
\* lower-cased form contains, and the digits after "category".
GHSEntries == { "Flammable liquid Category 3", "Skin irritation Category 2" }
HasHealthTerm(c)       == c \in { "Skin irritation Category 2" }
HasHealthCatTerm(c)    == c \in { "Skin irritation Category 2" }
HasPhysicalTerm(c)     == c \in { "Flammable liquid Category 3" }
HasPhysicalCatTerm(c)  == c \in { "Flammable liquid Category 3" }
CategoryDigits(c) ==
    CASE c = "Flammable liquid Category 3" -> "3"
      [] c = "Skin irritation Category 2" -> "2"
      [] OTHER -> ""

\* The classification of the first entry that passes `ok' (the loops of
\* lines 653-658 and 676-681 stop at the first entry that has a number).
FirstCategory(entries, ok(_)) ==
    LET hits == { i \in 1..Len(entries) : ok(entries[i]) /\ CategoryDigits(entries[i]) # "" }
    IN  IF hits = {} THEN "" ELSE CategoryDigits(entries[Min(hits)])

\* Lines 634-687: the structured hazard data fills the hazard fields that
\* the combined record lacks.
merge_hazard(res, data) ==
    IF ~Usable(data) THEN res
    ELSE LET ghs == Get(data, "GHS Classification", EmptyStr)
             entries == IF ghs.t = "list" THEN ghs.v ELSE << >>
             health_hazards_list == SelectSeq(entries, HasHealthTerm)
             physical_hazards_list == SelectSeq(entries, HasPhysicalTerm)
             health_category_no == FirstCategory(entries, HasHealthCatTerm)
             physical_category_no == FirstCategory(entries, HasPhysicalCatTerm)
             r1 == IF Missing(res, "Health Hazards")
                   THEN Put(res, "Health Hazards",
                            IF health_hazards_list # << >>
                            THEN Str(JoinWith(health_hazards_list, "; ")) ELSE ghs)
                   ELSE res
             r2 == IF Missing(r1, "Health Category") /\ health_category_no # ""
                   THEN Put(r1, "Health Category", Str(<< health_category_no >>)) ELSE r1
             r3 == IF Missing(r2, "Physical Hazards") /\ physical_hazards_list # << >>
                   THEN Put(r2, "Physical Hazards", Str(JoinWith(physical_hazards_list, "; ")))
                   ELSE r2
             r4 == IF Missing(r3, "Physical Category") /\ physical_category_no # ""
                   THEN Put(r3, "Physical Category", Str(<< physical_category_no >>)) ELSE r3
         IN  IF Missing(r4, "Hazard Statements")
             THEN Put(r4, "Hazard Statements",
                      JoinedIfList(Get(data, "Hazard Statements", EmptyStr)))
             ELSE r4

\* Lines 612-694 of multi_pass_extraction.
multi_pass_merge(basic, hierarchical, first_aid, firefighting, hazard, physical) ==
    fold_physical(
        merge_hazard(
            fold_measures(
                fold_measures(fill_missing(basic, hierarchical),
                              "First Aid Measures", first_aid),
                "Firefighting Measures", firefighting),
            hazard),
        physical)

\* Lines 799-805: lists and dicts become "; "-joined strings.  The v of a
\* dict value lists its rendered "key: value" items with a non-empty value.
flatten(d) ==
    [k \in DOMAIN d |->
        IF d[k].t \in { "list", "dict" } THEN Str(JoinWith(d[k].v, "; ")) ELSE d[k]]

\* Lines 784-807 of extract_sds_with_ml.
ml_finish(res) == flatten(fill_expected(res))


(************************ hierarchical_extraction **************************)
\* A provider call is made unless no client is configured.
ProviderUsed == provider_called' = (provider_called \/ ai_service # "none")

\* Lines 317-375 and 423-427: the section-position request.  When it
\* raises, the function returns only the error.
HierSections ==
    /\ pc \in { "ml_hier", "ml_multi_hier" }
    /\ h_pc = "hint"
    /\ IF ai_client = NO_CLIENT
       THEN /\ h_results' = ErrorDict(<< "No AI service available" >>)
            /\ h_pc' = "done"
            /\ UNCHANGED provider_called
       ELSE \E o \in SectionOutcomes("sections") :
               /\ ProviderUsed
               /\ IF sections_raises(ai_service, o)
                  THEN /\ h_results' =
                            ErrorDict(<< "Hierarchical extraction failed: ",
                                         IF o.raised THEN SECTION_EXC ELSE DECODE_MSG >>)
                       /\ h_pc' = "done"
                  ELSE /\ h_results' = EmptyDict
                       /\ h_pc' = "ident"
    /\ UNCHANGED << modVars, sdsVars, pc, callVars, pdfVars, aiVars, result,
                    results, first_aid_data, firefighting_data, hazard_data >>

\* One section extractor of hierarchical_extraction runs and its data is
\* folded into results.
HierStep(at, to, x, fold(_, _)) ==
    /\ pc \in { "ml_hier", "ml_multi_hier" }
    /\ h_pc = at
    /\ \E o \in SectionOutcomes(x) :
          h_results' = fold(h_results, section_extract(ai_service, o))
    /\ h_pc' = to
    /\ ProviderUsed
    /\ UNCHANGED << modVars, sdsVars, pc, callVars, pdfVars, aiVars, result,
                    results, first_aid_data, firefighting_data, hazard_data >>

TakeData(res, data) == data
FoldFirstAid(res, data) == fold_measures(res, "First Aid Measures", data)
FoldFirefighting(res, data) == fold_measures(res, "Firefighting Measures", data)

\* Line 378.
HierIdentification == HierStep("ident", "hazard", "identification", TakeData)
\* Lines 381-394.
HierHazard == HierStep("hazard", "first_aid", "hazard", fold_hazard)
\* Lines 397-404.
HierFirstAid == HierStep("first_aid", "firefighting", "first_aid", FoldFirstAid)
\* Lines 407-414.
HierFirefighting == HierStep("firefighting", "physical", "firefighting", FoldFirefighting)
\* Lines 417-421.
HierPhysical == HierStep("physical", "done", "physical", fold_physical)

(************************ extract_sds_with_ml ******************************)
MlTexts == { << >>, << "872-50-4" >>, << "H315" >> }
MlStrategies == EXTRACTION_STRATEGIES \cup { "other" }
\* Strategies the PDF entry point is called with.
PdfMlStrategies == { "direct_extraction", "hierarchical_extraction" }
TYPE_ERROR_MSG == "list indices must be integers or slices, not str"

Call_extract_sds_with_ml ==
    /\ pc = "idle"
    /\ \E t \in MlTexts, s \in MlStrategies, l \in BOOLEAN :
          NewCall("extract_sds_with_ml", t, l, s, "")
    /\ pc' = "ml_entry"
    /\ result' = NoResult
    /\ UNCHANGED << pdfVars, aiVars, mlVars >>

Call_extract_from_pdf_with_ml ==
    /\ pc = "idle"
    /\ \E t \in MlTexts, s \in PdfMlStrategies, l \in BOOLEAN :
          NewCall("extract_from_pdf_with_ml", t, l, s, "")
    /\ pc' = "mlpdf_acquire"
    /\ result' = NoResult
    /\ UNCHANGED << pdfVars, aiVars, mlVars >>

\* Lines 825-830 raise; lines 838-840.
MlPdfAcquireFails ==
    /\ pc = "mlpdf_acquire"
    /\ result' = Ret(ErrorDict(<< "PDF extraction failed: ", ACQUIRE_MSG >>))
    /\ pc' = "done"
    /\ UNCHANGED << modVars, sdsVars, callVars, pdfVars, aiVars, mlVars, provider_called >>

\* Line 836.
MlPdfAcquired ==
    /\ pc = "mlpdf_acquire"
    /\ pc' = "ml_entry"
    /\ UNCHANGED << modVars, sdsVars, callVars, pdfVars, aiVars, mlVars, provider_called, result >>

\* Lines 711-775: the two early returns, then light mode or the strategy.
MlEntry ==
    /\ pc = "ml_entry"
    /\ IF text = << >>
       THEN /\ result' = Ret(ErrorDict(<< "No text provided" >>))
            /\ pc' = "done"
            /\ UNCHANGED << aiVars, mlVars >>
       ELSE IF ai_client = NO_CLIENT
       THEN /\ result' = Ret(ErrorDict(<< "No AI API keys available" >>))
            /\ pc' = "done"
            /\ UNCHANGED << aiVars, mlVars >>
       ELSE IF light_mode
       THEN StartAi(TRUE) /\ pc' = "ml_light" /\ UNCHANGED << result, mlVars >>
       ELSE IF strategy = "hierarchical_extraction"
       THEN /\ h_pc' = "hint"
            /\ pc' = "ml_hier"
            /\ UNCHANGED << result, aiVars, h_results, results, first_aid_data,
                            firefighting_data, hazard_data >>
       ELSE /\ StartAi(FALSE)
            /\ pc' = CASE strategy = "specialized_extraction" -> "ml_spec_basic"
                       [] strategy = "multi_pass_extraction" -> "ml_multi_basic"
                       [] OTHER -> "ml_direct"
            /\ UNCHANGED << result, mlVars >>
    /\ UNCHANGED << modVars, sdsVars, callVars, pdfVars, provider_called >>

\* extract_with_ai returned its dict to the strategy; its frame is gone.
MlBasicReturned(at, to) ==
    /\ pc = at
    /\ ai_pc = "done"
    /\ ai_ret.kind = "ret"
    /\ results' = ai_ret.rec
    /\ pc' = to
    /\ ClearAi
    /\ UNCHANGED << modVars, sdsVars, callVars, pdfVars, provider_called, result,
                    h_pc, h_results, first_aid_data, firefighting_data, hazard_data >>

\* Line 732.
MlLightReturned == MlBasicReturned("ml_light", "ml_finish")
\* Lines 740 and 775.
MlDirectReturned == MlBasicReturned("ml_direct", "ml_finish")
\* Line 749.
MlSpecBasicReturned == MlBasicReturned("ml_spec_basic", "ml_spec_first_aid")
\* Line 781.
MlFallbackReturned == MlBasicReturned("ml_fallback", "ml_finish")

\* Line 600, then line 603.
MlMultiBasicReturned ==
    /\ pc = "ml_multi_basic"
    /\ ai_pc = "done"
    /\ ai_ret.kind = "ret"
    /\ results' = ai_ret.rec
    /\ pc' = "ml_multi_hier"
    /\ h_pc' = "hint"
    /\ ClearAi
    /\ UNCHANGED << modVars, sdsVars, callVars, pdfVars, provider_called, result,
                    h_results, first_aid_data, firefighting_data, hazard_data >>

\* Lines 777-781: extract_with_ai raised inside the try; the handler calls
\* extract_with_ai(text, light_mode=True).
MlExceptionFallback ==
    /\ pc \in { "ml_light", "ml_direct", "ml_spec_basic", "ml_multi_basic" }
    /\ ai_pc = "done"
    /\ ai_ret.kind = "raise"
    /\ StartAi(TRUE)
    /\ pc' = "ml_fallback"
    /\ UNCHANGED << modVars, sdsVars, callVars, pdfVars, mlVars, provider_called, result >>

\* The call of line 781 raised as well: extract_sds_with_ml raises, and
\* extract_from_pdf_with_ml turns that into its error (lines 838-840).
MlFallbackRaised ==
    /\ pc = "ml_fallback"
    /\ ai_pc = "done"
    /\ ai_ret.kind = "raise"
    /\ result' = IF from_pdf
                 THEN Ret(ErrorDict(<< "PDF extraction failed: ", TYPE_ERROR_MSG >>))
                 ELSE Raised
    /\ pc' = "done"
    /\ ClearAi
    /\ UNCHANGED << modVars, sdsVars, callVars, pdfVars, mlVars, provider_called >>


\* Lines 752-758 and 760-766: a section extractor of the specialized
\* strategy runs and its data is written over the field.
MlSpecStep(at, to, x, field) ==
    /\ pc = at
    /\ \E o \in SectionOutcomes(x) :
          results' = fold_measures(results, field, section_extract(ai_service, o))
    /\ pc' = to
    /\ ProviderUsed
    /\ UNCHANGED << modVars, sdsVars, callVars, pdfVars, aiVars, result,
                    h_pc, h_results, first_aid_data, firefighting_data, hazard_data >>

MlSpecFirstAid ==
    MlSpecStep("ml_spec_first_aid", "ml_spec_firefighting", "first_aid",
               "First Aid Measures")
MlSpecFirefighting ==
    MlSpecStep("ml_spec_firefighting", "ml_finish", "firefighting",
               "Firefighting Measures")

\* Line 744.
MlHierReturned ==
    /\ pc = "ml_hier"
    /\ h_pc = "done"
    /\ results' = h_results
    /\ h_results' = EmptyDict
    /\ h_pc' = "idle"
    /\ pc' = "ml_finish"
    /\ UNCHANGED << modVars, sdsVars, callVars, pdfVars, aiVars, provider_called, result,
                    first_aid_data, firefighting_data, hazard_data >>

\* Line 603: hierarchical_results is kept for the merge.
MlMultiHierReturned ==
    /\ pc = "ml_multi_hier"
    /\ h_pc = "done"
    /\ h_pc' = "idle"
    /\ pc' = "ml_multi_first_aid"
    /\ UNCHANGED << modVars, sdsVars, callVars, pdfVars, aiVars, provider_called, result,
                    h_results, results, first_aid_data, firefighting_data, hazard_data >>

\* Line 606.
MlMultiFirstAid ==
    /\ pc = "ml_multi_first_aid"
    /\ \E o \in SectionOutcomes("first_aid") :
          first_aid_data' = section_extract(ai_service, o)
    /\ pc' = "ml_multi_firefighting"
    /\ ProviderUsed
    /\ UNCHANGED << modVars, sdsVars, callVars, pdfVars, aiVars, result,
                    h_pc, h_results, results, firefighting_data, hazard_data >>

\* Line 607.
MlMultiFirefighting ==
    /\ pc = "ml_multi_firefighting"
    /\ \E o \in SectionOutcomes("firefighting") :
          firefighting_data' = section_extract(ai_service, o)
    /\ pc' = "ml_multi_hazard"
    /\ ProviderUsed
    /\ UNCHANGED << modVars, sdsVars, callVars, pdfVars, aiVars, result,
                    h_pc, h_results, results, first_aid_data, hazard_data >>

\* Line 608.
MlMultiHazard ==
    /\ pc = "ml_multi_hazard"
    /\ \E o \in SectionOutcomes("hazard") :
          hazard_data' = section_extract(ai_service, o)
    /\ pc' = "ml_multi_physical"
    /\ ProviderUsed
    /\ UNCHANGED << modVars, sdsVars, callVars, pdfVars, aiVars, result,
                    h_pc, h_results, results, first_aid_data, firefighting_data >>

\* Lines 609-694 and 770: the last call, then the merge; the function's
\* locals are gone when it returns.
MlMultiPhysical ==
    /\ pc = "ml_multi_physical"
    /\ \E o \in SectionOutcomes("physical") :
          results' = multi_pass_merge(results, h_results, first_aid_data,
                                      firefighting_data, hazard_data,
                                      section_extract(ai_service, o))
    /\ h_results' = EmptyDict
    /\ first_aid_data' = EmptyDict
    /\ firefighting_data' = EmptyDict
    /\ hazard_data' = EmptyDict
    /\ pc' = "ml_finish"
    /\ ProviderUsed
    /\ UNCHANGED << modVars, sdsVars, callVars, pdfVars, aiVars, result, h_pc >>

\* Lines 784-807 (and 836 when called for a PDF).
MlFinish ==
    /\ pc = "ml_finish"
    /\ result' = Ret(ml_finish(results))
    /\ pc' = "done"
    /\ UNCHANGED << modVars, sdsVars, callVars, pdfVars, aiVars, mlVars, provider_called >>

--------------------------------------------------------------------------
(* Specifications                                                          *)

\* No call is running.
Idle ==
    /\ hash_order \in SetOrders
    /\ sds_pattern_data = << >>
    /\ sds_section_data = << >>
    /\ pc = "idle"
    /\ call = ""
    /\ text = << >>
    /\ light_mode = FALSE
    /\ strategy = ""
    /\ sds_method = ""
    /\ from_pdf = FALSE
    /\ pdf_light = FALSE
    /\ nested = 0
    /\ ai_pc = "idle"
    /\ ai_light = FALSE
    /\ retry_count = 0
    /\ wait_time = 0
    /\ sleeps = 0
    /\ response_bound = FALSE
    /\ response_text = << >>
    /\ last_exc = ""
    /\ all_rate_limit = TRUE
    /\ calls = 0
    /\ provider_called = FALSE
    /\ ai_ret = NoResult
    /\ h_pc = "idle"
    /\ h_results = EmptyDict
    /\ results = EmptyDict
    /\ first_aid_data = EmptyDict
    /\ firefighting_data = EmptyDict
    /\ hazard_data = EmptyDict
    /\ result = NoResult

Init == ModuleLoaded(MainEnvirons) /\ Idle

AiNext ==
    \/ AiEntry
    \/ AiAttemptOk
    \/ AiAttemptFails
    \/ AiLoopExit
    \/ AiParse
    \/ AiOpenAIOk
    \/ AiOpenAIFails

PdfNext ==
    \/ Call_extract_from_pdf_with_ai
    \/ PdfAcquireFails
    \/ PdfLightMode
    \/ PdfLiveCall
    \/ PdfRateLimitFallback
    \/ PdfExceptionFallback
    \/ PdfReturn

HierNext ==
    \/ HierSections
    \/ HierIdentification
    \/ HierHazard
    \/ HierFirstAid
    \/ HierFirefighting
    \/ HierPhysical

MlNext ==
    \/ Call_extract_sds_with_ml
    \/ Call_extract_from_pdf_with_ml
    \/ MlPdfAcquireFails
    \/ MlPdfAcquired
    \/ MlEntry
    \/ MlLightReturned
    \/ MlDirectReturned
    \/ MlSpecBasicReturned
    \/ MlFallbackReturned
    \/ MlMultiBasicReturned
    \/ MlExceptionFallback
    \/ MlFallbackRaised
    \/ MlSpecFirstAid
    \/ MlSpecFirefighting
    \/ MlHierReturned
    \/ MlMultiHierReturned
    \/ MlMultiFirstAid
    \/ MlMultiFirefighting
    \/ MlMultiHazard
    \/ MlMultiPhysical
    \/ MlFinish

Next ==
    \/ Call_extract_with_ai
    \/ Return_extract_with_ai
    \/ AiNext
    \/ PdfNext
    \/ HierNext
    \/ MlNext
    \/ Call_extract_sds_data
    \/ Call_section_extractor
    \/ SdsMerge
    \/ Reset

Spec == Init /\ [][Next]_vars

(***************************************************************************)
(* The single-shot and PDF entry points of ai_extractor in every           *)
(* environment the module may be imported in.                              *)
(***************************************************************************)
InitProvider == ModuleLoaded(Environs) /\ Idle

NextProvider ==
    \/ Call_extract_with_ai
    \/ Return_extract_with_ai
    \/ AiNext
    \/ PdfNext
    \/ Reset

SpecProvider == InitProvider /\ [][NextProvider]_vars

\* Calls of extract_from_pdf_with_ai only.  The engine is synchronous: a
\* call that has been made runs its next statement.
PdfRuns ==
    \/ AiNext
    \/ PdfAcquireFails
    \/ PdfLightMode
    \/ PdfLiveCall
    \/ PdfRateLimitFallback
    \/ PdfExceptionFallback
    \/ PdfReturn

NextPdf ==
    \/ Call_extract_from_pdf_with_ai
    \/ PdfRuns
    \/ Reset

SpecPdf == Init /\ [][NextPdf]_vars /\ WF_vars(PdfRuns)


(***************************************************************************)
(* The local path on longer documents: extract_sds_data and                *)
(* extract_pattern_based applied to every text of up to MaxLines lines.    *)
(***************************************************************************)
LocalTexts == TextsUpTo(MaxLines)

\* The dict of a local extractor with its strings as values of the record.
StrDict(d) == [k \in DOMAIN d |-> Str(d[k])]

Local_extract_sds_data == SdsDataCall(LocalTexts)

Local_extract_pattern_based ==
    /\ pc = "idle"
    /\ \E t \in LocalTexts :
          /\ NewCall("extract_pattern_based", t, FALSE, "", "")
          /\ result' = Ret(StrDict(extract_pattern_based(t, hash_order)))
    /\ pc' = "done"
    /\ UNCHANGED << pdfVars, aiVars, mlVars >>

NextLocal ==
    \/ Local_extract_sds_data
    \/ SdsMerge
    \/ Local_extract_pattern_based
    \/ Reset

\* The local path reads no provider state.
InitLocal == Init /\ ai_service = "none"

SpecLocal == InitLocal /\ [][NextLocal]_vars

(***************************************************************************)
(* The merge and clean-up of extract_sds_data (lines 24-68) on the results *)
(* of its extractors: extract_sds_data at the point where the extractors   *)
(* have returned.  The results are drawn from MergeResults instead of      *)
(* being computed from an enumerated document, so that values around the   *)
(* thresholds of 3 and 500 characters occur.  A piece "wordN" is a word of *)
(* N characters.                                                           *)
(***************************************************************************)
\* Number of register fields the drawn results range over.
MaxMergeFields == 2
MergeFieldList == << "Product Name", "Hazards", "Odour" >>
MergeFields == { MergeFieldList[i] : i \in 1..MaxMergeFields }
MergeValues ==
    { << >>,
      << "word3" >>,
      << SP, "word3", NL >>,
      << "word4" >>,
      << SP, "word4", SP, SP, "word3" >>,
      << "word500" >>,
      << "word250", SP, NL, "word249" >>,
      << "word250", SP, "word250" >>,
      << "word497", SP, "word4" >> }
\* The values of the fields after the first one.
MergeOtherValues ==
    { << "word3" >>, << "word4" >>, << SP, "word4", SP, SP, "word3" >> }
\* A result holds a value for some of the fields, and may hold a key that
\* is no register field.
MergeResults ==
    UNION { { d, Put(d, "CAS Number", << "872-50-4" >>) } :
                d \in UNION { { r \in [F -> MergeValues] :
                                   \A f \in F \ { MergeFieldList[1] } :
                                       r[f] \in MergeOtherValues } :
                              F \in SUBSET MergeFields } }
MERGE_DOC == << "document" >>

InitMerge ==
    /\ ModuleLoaded(MainEnvirons)
    /\ ai_service = "none"
    /\ hash_order \in SetOrders
    /\ sds_pattern_data \in MergeResults
    /\ sds_section_data \in MergeResults
    /\ sds_method \in Methods
    /\ sds_method = "Section-based" => sds_pattern_data = << >>
    /\ sds_method = "Pattern-based" => sds_section_data = << >>
    /\ pc = "sds_merge"
    /\ call = "extract_sds_data"
    /\ text = MERGE_DOC
    /\ light_mode = FALSE
    /\ strategy = ""
    /\ from_pdf = FALSE
    /\ pdf_light = FALSE
    /\ nested = 0
    /\ ai_pc = "idle"
    /\ ai_light = FALSE
    /\ retry_count = 0
    /\ wait_time = 0
    /\ sleeps = 0
    /\ response_bound = FALSE
    /\ response_text = << >>
    /\ last_exc = ""
    /\ all_rate_limit = TRUE
    /\ calls = 0
    /\ provider_called = FALSE
    /\ ai_ret = NoResult
    /\ h_pc = "idle"
    /\ h_results = EmptyDict
    /\ results = EmptyDict
    /\ first_aid_data = EmptyDict
    /\ firefighting_data = EmptyDict
    /\ hazard_data = EmptyDict
    /\ result = NoResult

NextMerge == SdsMerge

SpecMerge == InitMerge /\ [][NextMerge]_vars

(***************************************************************************)
(* The parsing block of extract_with_ai on every reply of up to            *)
(* MaxReplyLen lexemes: extract_with_ai on the anthropic service at the    *)
(* point where its first attempt has returned the reply.                   *)
(***************************************************************************)
MaxReplyLen == 4
ReplyLexemes == { "p", "fo", "fc", "{", "}", "[", "]", "kvName" }
RepliesUpTo(n) == UNION { [1..k -> ReplyLexemes] : k \in 0..n }
\* Prose before and after, and a fence around, the lexemes of the reply.
ReplyPrefixes == { << >>, << "p" >>, << "p", "fo" >> }
ReplySuffixes == { << >>, << "p" >>, << "fc", "p" >> }
ParseReplies ==
    { pre \o core \o post :
        pre \in ReplyPrefixes, core \in RepliesUpTo(MaxReplyLen), post \in ReplySuffixes }

InitParse ==
    /\ ModuleLoaded(MainEnvirons)
    /\ ai_service = "anthropic"
    /\ hash_order \in SetOrders
    /\ sds_pattern_data = << >>
    /\ sds_section_data = << >>
    /\ pc = "ai_top"
    /\ call = "extract_with_ai"
    /\ text = << "H315" >>
    /\ light_mode = FALSE
    /\ strategy = ""
    /\ sds_method = ""
    /\ from_pdf = FALSE
    /\ pdf_light = FALSE
    /\ nested = 0
    /\ ai_pc = "parse"
    /\ ai_light = FALSE
    /\ retry_count = 0
    /\ wait_time = INITIAL_DELAY
    /\ sleeps = 1
    /\ response_bound = TRUE
    /\ response_text \in ParseReplies
    /\ last_exc = ""
    /\ all_rate_limit = FALSE
    /\ calls = 1
    /\ provider_called = TRUE
    /\ ai_ret = NoResult
    /\ h_pc = "idle"
    /\ h_results = EmptyDict
    /\ results = EmptyDict
    /\ first_aid_data = EmptyDict
    /\ firefighting_data = EmptyDict
    /\ hazard_data = EmptyDict
    /\ result = NoResult

NextParse ==
    \/ AiParse
    \/ Return_extract_with_ai

SpecParse == InitParse /\ [][NextParse]_vars


--------------------------------------------------------------------------
(* Properties                                                              *)

\* The top-level call has returned a dict.
Returned == pc = "done" /\ result.kind = "ret"
CanonicalKeys == Range(expected_fields)
RegisterKeys == Range(required_fields)

\* The record of light mode: the Pattern-based record, with or without
\* the source filename.
IsPatternResult(r, t) ==
    /\ r.kind = "ret"
    /\ LET basic_data == extract_sds_data(t, "Pattern-based", hash_order)
       IN  r.rec \in { basic_data, Put(basic_data, "Source File", Str(<< FILENAME >>)) }

AcquireError == Ret(ErrorDict(<< "PDF extraction failed: ", ACQUIRE_MSG >>))

\* Some piece of the error message of r names a rate limit.
NamesRateLimit(r) ==
    \E i \in 1..Len(r.rec["error"].v) :
        LET piece == r.rec["error"].v[i]
        IN  HasRateLimit(piece) \/ Has429(piece) \/ HasTooManyRequests(piece)

\* The engine delivers a record in the cases C1 lists.
C1_Delivered ==
    /\ Returned
    /\ \/ call = "extract_sds_data"
       \/ call = "extract_with_ai" /\ ~HasError(result)
       \/ call = "extract_sds_with_ml" /\ text # << >> /\ ai_service # "none"

C2_Triggered ==
    /\ Returned
    /\ \/ call = "extract_pattern_based"
       \/ call = "extract_sds_data" /\ sds_method = "Pattern-based"
    /\ HasAny(text, { "872-50-4" })

\* C2: for a text that contains "872-50-4" the pattern path yields Health
\* Hazards equal to the fixed phrase and Odour equal to "amine", whatever
\* else matched in the text.
C2_Override ==
    C2_Triggered =>
        /\ result.rec["Health Hazards"] = Str(NMP_HEALTH_HAZARDS)
        /\ result.rec["Odour"] = Str(NMP_ODOUR)

\* extract_with_ai has finished on the retrying provider after every one of
\* its attempts raised a rate-limit signal.
C3_AlwaysRateLimited ==
    /\ ai_service = "anthropic"
    /\ ai_pc = "done"
    /\ all_rate_limit
    /\ calls = max_retries

\* C3: when every attempt raises a rate-limit signal, extract_with_ai
\* returns an error map whose message names the rate limit and includes
\* the maximum attempt count.
C3_ExhaustionError ==
    C3_AlwaysRateLimited =>
        /\ HasError(ai_ret)
        /\ NamesRateLimit(ai_ret)
        /\ ToString(max_retries) \in Range(ai_ret.rec["error"].v)

\* C4: one invocation of extract_with_ai never makes more than max_retries
\* provider calls; it has made exactly max_retries when it leaves the loop
\* after only rate-limit signals; and once a reply is bound it is past the
\* loop, where no further attempt is made.
C4_CallsBounded ==
    /\ calls <= max_retries
    /\ (ai_service = "anthropic" /\ ai_pc \in { "parse", "done" } /\ all_rate_limit)
          => calls = max_retries
    /\ response_bound => ai_pc \in { "parse", "done" }

\* The wrapper has finished after max_retries rate-limit signals.
C4_Witness ==
    /\ ai_service = "anthropic"
    /\ ai_pc = "done"
    /\ all_rate_limit
    /\ calls = max_retries
    /\ retry_count = max_retries

\* extract_from_pdf_with_ai was called live, and the live extract_with_ai
\* ended in an error after provider failures that were all rate-limit
\* signals.
C5_LiveRateLimited ==
    /\ pc = "done"
    /\ call = "extract_from_pdf_with_ai"
    /\ ~light_mode
    /\ ai_pc = "done"
    /\ HasError(ai_ret)
    /\ all_rate_limit
    /\ calls > 0

\* C5: whenever the live extraction ends in an error caused by rate
\* limiting, extract_from_pdf_with_ai runs the light path exactly once and
\* returns what it returns, the Pattern-based record (or the error of a
\* document that can no longer be read).
C5_FallsBackOnce ==
    C5_LiveRateLimited =>
        /\ nested = 1
        /\ IsPatternResult(result, text) \/ result = AcquireError

\* A caller selected light mode on a text and provider for which the
\* function gets as far as its light branch.
C6_LightSelected ==
    /\ pc = "done"
    /\ light_mode
    /\ call \in { "extract_from_pdf_with_ai", "extract_with_ai", "extract_sds_with_ml" }
    /\ ai_service # "none"
    /\ text # << >>
    /\ result # AcquireError

\* C6: with light_mode=True no provider call is made during the invocation
\* and the returned record is the Pattern-based result.
C6_LightIsLocal ==
    C6_LightSelected => ~provider_called /\ IsPatternResult(result, text)

\* None of the three parsing strategies yields a JSON object from reply r.
C7_NoObject(r) ==
    /\ ~(HasFence(r) /\ IsJsonObject(FenceContent(r)))
    /\ ~IsJsonObject(r)
    /\ ~(HasBraceSpan(r) /\ IsJsonObject(BraceSpan(r)))

\* C7: when no parsing strategy yields a JSON object, extract_with_ai
\* returns a map with an error key; it neither raises nor returns a field
\* map.
C7_ParseFailureIsError ==
    (ai_pc = "done" /\ response_bound /\ C7_NoObject(response_text)) => HasError(ai_ret)


\* What extract_with_ai returns for the JSON object obj of a reply.
C8_MapOf(obj) ==
    Ret(join_lists(ai_override(fill_expected(ObjectDict(SubSeq(obj, 2, Len(obj) - 1))),
                               text)))

\* Reply r has a fenced json block from position i to position j.
C8_FencedAt(r, i, j) ==
    /\ i < j
    /\ r[i] = "fo"
    /\ \A a \in 1..(i - 1) : r[a] # "fo"
    /\ r[j] \in Fences
    /\ \A a \in (i + 1)..(j - 1) : r[a] \notin Fences
C8_Fenced(r) == \E i, j \in 1..Len(r) : C8_FencedAt(r, i, j)

\* Position i holds the first "{" and position j the last "}" of reply r.
C8_BracesAt(r, i, j) ==
    /\ i < j
    /\ r[i] = "{"
    /\ \A a \in 1..(i - 1) : r[a] # "{"
    /\ r[j] = "}"
    /\ \A a \in (j + 1)..Len(r) : r[a] # "}"

\* C8: extract_with_ai takes (a) the JSON object of the fenced json block,
\* else (b) the whole reply when it is a JSON object, else (c) the JSON
\* object from the first "{" to the last "}"; prose, a fenced object
\* {"Product Name": "X"} and more prose yield Product Name "X", and so does
\* prose around that object without a fence.
C8_ParseOrder ==
    ai_pc = "done" =>
        LET r == response_text
        IN  /\ \A i, j \in 1..Len(r) :
                  (C8_FencedAt(r, i, j) /\ IsJsonObject(SubSeq(r, i + 1, j - 1)))
                     => ai_ret = C8_MapOf(SubSeq(r, i + 1, j - 1))
            /\ (~C8_Fenced(r) /\ IsJsonObject(r)) => ai_ret = C8_MapOf(r)
            /\ \A i, j \in 1..Len(r) :
                  (/\ ~C8_Fenced(r)
                   /\ ~IsJsonValue(r)
                   /\ C8_BracesAt(r, i, j)
                   /\ IsJsonObject(SubSeq(r, i, j)))
                     => ai_ret = C8_MapOf(SubSeq(r, i, j))
            /\ r \in { << "p", "fo", "{", "kvName", "}", "fc", "p" >>,
                       << "p", "{", "kvName", "}", "p" >> }
                  => /\ ai_ret.kind = "ret"
                     /\ ai_ret.rec["Product Name"] = Str(<< "X" >>)

\* The reply with prose around a fenced object has been parsed.
C8_Witness ==
    /\ ai_pc = "done"
    /\ response_text = << "p", "fo", "{", "kvName", "}", "fc", "p" >>
    /\ ai_ret.kind = "ret"
    /\ ai_ret.rec["Product Name"] = Str(<< "X" >>)

\* A function of the model path has returned a map with an error key.
C9_ErrorReturned ==
    /\ pc = "done"
    /\ call \in { "extract_with_ai", "extract_sds_with_ml",
                  "extract_from_pdf_with_ai", "extract_from_pdf_with_ml" }
    /\ HasError(result)

\* C9: an error result of the model path is a map whose only key is error.
C9_ErrorOnly == C9_ErrorReturned => DOMAIN result.rec = { "error" }

\* Text t holds the line at some position, and the first piece with that
\* label starts such a line.
C10_HasLine(t, line) ==
    \E i \in 1..(Len(t) - Len(line) + 1) : SubSeq(t, i, i + Len(line) - 1) = line
C10_IsFirst(t, line) ==
    \E i \in 1..(Len(t) - Len(line) + 1) :
        /\ SubSeq(t, i, i + Len(line) - 1) = line
        /\ \A a \in 1..(i - 1) : t[a] # line[1]

C10_CasLine   == << "CAS No:", SP, "872-50-4" >>
C10_FlashLine == << "Flash point:", SP, "91°C" >>

\* extract_sds_data ran in Pattern-based mode on a text with both lines.
C10_Example ==
    /\ Returned
    /\ call = "extract_sds_data"
    /\ sds_method = "Pattern-based"
    /\ C10_HasLine(text, C10_CasLine)
    /\ C10_HasLine(text, C10_FlashLine)

C11_HierFold == h_pc \in { "hazard", "first_aid", "firefighting", "physical" }
C11_RecordFold == pc \in { "ml_spec_first_aid", "ml_spec_firefighting", "ml_multi_physical" }

\* Every field of old that holds a non-empty value holds the same value in new.
C11_Kept(old, new) ==
    \A k \in DOMAIN old : Truthy(old[k]) => (k \in DOMAIN new /\ new[k] = old[k])

\* No field of old that holds a non-empty value is empty or missing in new.
C11_NotEmptied(old, new) ==
    \A k \in DOMAIN old : Truthy(old[k]) => (k \in DOMAIN new /\ Truthy(new[k]))

\* C11: in every consolidation merge of the model path a field that holds
\* a non-empty value is never replaced by an empty value, and a later
\* extraction only fills a field that is currently missing or empty.
C11_FillIfEmpty ==
    [][ /\ C11_HierFold =>
            (C11_NotEmptied(h_results, h_results') /\ C11_Kept(h_results, h_results'))
        /\ C11_RecordFold =>
            (C11_NotEmptied(results, results') /\ C11_Kept(results, results')) ]_vars

\* extract_sds_data has returned in Automatic mode.
C12_AutomaticReturned ==
    /\ Returned
    /\ call = "extract_sds_data"
    /\ sds_method = "Automatic"

\* The Pattern-based value of field f has a trimmed length above 3.
C12_Meaningful(d, f) == CharLen(Strip(Get(d, f, << >>))) > MEANINGFUL_LEN

\* C12: in Automatic mode, a field whose Pattern-based value has a trimmed
\* length greater than 3 is delivered with the value Pattern-based mode
\* delivers for it, whatever the Section-based value is.
C12_PatternValueWins ==
    C12_AutomaticReturned =>
        \A f \in RegisterKeys :
            C12_Meaningful(sds_pattern_data, f) =>
                result.rec[f] = sds_record(sds_pattern_data, << >>, "Pattern-based")[f]

\* Automatic mode has delivered the Pattern-based value of a field for
\* which the Section-based result holds a different meaningful value.
C12_Witness ==
    /\ C12_AutomaticReturned
    /\ \E f \in RegisterKeys :
          /\ C12_Meaningful(sds_pattern_data, f)
          /\ C12_Meaningful(sds_section_data, f)
          /\ Strip(Collapse(sds_section_data[f])) # Strip(Collapse(sds_pattern_data[f]))
          /\ result.rec[f] = Str(clean_value(sds_pattern_data[f]))

\* extract_sds_data has returned its record.
C13_Delivered == Returned /\ call = "extract_sds_data"

\* The raw values the mode may deliver for field f.
C13_Sources(f) ==
    CASE sds_method = "Pattern-based" -> { Get(sds_pattern_data, f, << >>) }
      [] sds_method = "Section-based" -> { Get(sds_section_data, f, << >>) }
      [] OTHER -> { Get(sds_pattern_data, f, << >>), Get(sds_section_data, f, << >>), << >> }

\* x holds the first KEPT_LEN characters of c: whole pieces of c, then the
\* characters kept of the piece the cut falls in.
C13_KeptFrom(c, x) ==
    /\ CharLen(x) = KEPT_LEN
    /\ \A i \in 1..Len(x) :
          \/ IsCutRun(x[i])
          \/ i <= Len(c) /\ x[i] = c[i] /\ \A j \in 1..(i - 1) : ~IsCutRun(x[j])

\* v is what the truncation law delivers for the raw value.
C13_Law(raw, v) ==
    LET c == Strip(Collapse(raw))
    IN  IF CharLen(c) > MAX_VALUE_LEN
        THEN /\ CharLen(v) = MAX_VALUE_LEN
             /\ v[Len(v)] = "..."
             /\ C13_KeptFrom(c, SubSeq(v, 1, Len(v) - 1))
        ELSE v = c

\* C13: every value extract_sds_data delivers obeys the truncation law: a
\* value whose collapsed, trimmed length exceeds 500 characters is
\* delivered as its first 497 characters followed by "...", 500 characters
\* in all; a value of at most 500 characters is delivered unchanged; no
\* delivered value is longer than 500 characters.
C13_TruncationLaw ==
    C13_Delivered =>
        \A f \in RegisterKeys :
            /\ CharLen(result.rec[f].v) <= MAX_VALUE_LEN
            /\ \E raw \in C13_Sources(f) : C13_Law(raw, result.rec[f].v)

\* A value of 502 characters has been delivered as its first 497
\* characters and the ellipsis.
C13_Witness ==
    /\ C13_Delivered
    /\ sds_method = "Pattern-based"
    /\ \E f \in RegisterKeys :
          /\ Get(sds_pattern_data, f, << >>) = << "word497", SP, "word4" >>
          /\ result.rec[f] = Str(<< "word497", "..." >>)

\* Pattern-based extraction has returned its record for the text.
C14_PatternRun ==
    /\ Returned
    /\ \/ call = "extract_pattern_based"
       \/ call = "extract_sds_data" /\ sds_method = "Pattern-based"

\* The record a run on text t returns in a process whose hash seed gives
\* the set order `order'.
C14_RecordOf(t, order) ==
    IF call = "extract_pattern_based"
    THEN StrDict(extract_pattern_based(t, order))
    ELSE extract_sds_data(t, "Pattern-based", order)

\* C14: Pattern-based extraction is deterministic: the record returned for
\* a text is the record every other run on the identical text returns,
\* the aggregate fields built through a set included.
C14_Deterministic ==
    C14_PatternRun =>
        \A order \in SetOrders : result.rec = C14_RecordOf(text, order)

(***************************************************************************)
(* C15.  Flat records of the model path.                                   *)
(***************************************************************************)
C15_NonErrorRecord ==
    /\ Returned
    /\ call \in { "extract_with_ai", "extract_sds_with_ml" }
    /\ ~HasError(result)

C15_IsFlat(d) == \A k \in DOMAIN d : d[k].t = "str"

\* C15: a record without an error key returned by extract_with_ai or
\* extract_sds_with_ml holds no nested value: every list and every map
\* the provider sent has become a string.
C15_NoNestedValue == C15_NonErrorRecord => C15_IsFlat(result.rec)

(***************************************************************************)
(* C16.  The local path reports no error.                                  *)
(***************************************************************************)
C16_LocalDone == pc = "done" /\ call = "extract_sds_data"

\* The value the chosen method found for field f: nothing when the pattern
\* matched nothing or the section was not found.
C16_Missed(f) ==
    CASE sds_method = "Pattern-based" -> Get(sds_pattern_data, f, << >>) = << >>
      [] sds_method = "Section-based" -> Get(sds_section_data, f, << >>) = << >>
      [] OTHER -> /\ Get(sds_pattern_data, f, << >>) = << >>
                  /\ Get(sds_section_data, f, << >>) = << >>

\* C16: extract_sds_data never reports an error.  For every text and every
\* method it returns a record without an error key whose keys are the fixed
\* field list; a field whose pattern matched nothing or whose section was
\* not found is the empty string, and for the text in which nothing matches
\* every value is the empty string.
C16_NoErrorFixedKeys ==
    C16_LocalDone =>
        /\ result.kind = "ret"
        /\ "error" \notin DOMAIN result.rec
        /\ DOMAIN result.rec = RegisterKeys
        /\ \A f \in RegisterKeys : result.rec[f].t = "str"
        /\ \A f \in RegisterKeys : C16_Missed(f) => result.rec[f] = EmptyStr
        /\ text = << >> => \A f \in RegisterKeys : result.rec[f] = EmptyStr

\* A call on a non-empty text has returned a record in which one field was
\* found and another, which the method missed, is the empty string.
C16_Witness ==
    /\ C16_LocalDone
    /\ text # << >>
    /\ \E f, g \in RegisterKeys :
          /\ C16_Missed(f) /\ result.rec[f] = EmptyStr
          /\ ~C16_Missed(g) /\ result.rec[g] # EmptyStr

(***************************************************************************)
(* C17.  Automatic switches of strategy.                                   *)
(***************************************************************************)
\* A running call leaves the strategy its caller chose: the PDF entry point
\* re-enters itself in light mode (lines 277 and 288), or extract_sds_with_ml
\* runs the light single-shot extraction of line 781.
C17_Switch ==
    /\ pc # "idle"
    /\ \/ ~pdf_light /\ pdf_light'
       \/ pc # "ml_fallback" /\ pc' = "ml_fallback"

\* The single-shot extraction has returned an error classified as rate-limit.
C17_RateLimited ==
    /\ ai_pc = "done"
    /\ HasError(ai_ret)
    /\ ai_ret.rec["error"].t = "str"
    /\ mentions_rate_limit(ai_ret.rec["error"])

\* C17: a strategy chosen by the caller is replaced by another one only
\* through the light-mode fallback taken after an error classified as
\* rate-limit; no other failure makes a different strategy run.
C17_OnlyRateLimitSwitch == [][C17_Switch => C17_RateLimited]_vars

(***************************************************************************)
(* C18.  The known-substance override on the two paths.                    *)
(***************************************************************************)
C18_ModelReturned ==
    /\ Returned
    /\ call = "extract_with_ai"
    /\ ~HasError(result)

\* The record of the model path carries the forced phrase and odour.
C18_ModelFired ==
    /\ result.rec["Health Hazards"] = Str(NMP_HEALTH_HAZARDS)
    /\ result.rec["Odour"] = Str(NMP_ODOUR)

\* The pattern path takes its known-substance branches on text t and its
\* record carries the forced phrase and odour.
C18_PatternFired(t) ==
    /\ pattern_is_nmp(t)
    /\ extract_pattern_based(t, hash_order)["Health Hazards"] = NMP_HEALTH_HAZARDS
    /\ extract_pattern_based(t, hash_order)["Odour"] = NMP_ODOUR

\* C18: the known-substance override of the model path is that of the
\* pattern path: for every text it fires on the model path if and only if
\* it fires on the pattern path, and both force the same Health Hazards
\* phrase and the odour "amine".
C18_SameOverride == C18_ModelReturned => (C18_ModelFired <=> C18_PatternFired(text))

(***************************************************************************)
(* C19.  Provider selection.                                               *)
(***************************************************************************)
C19_OpenAIUsable == KeyGiven(environ.OPENAI_API_KEY) /\ environ.openai_installed
C19_AnthropicUsable == KeyGiven(environ.ANTHROPIC_API_KEY) /\ environ.anthropic_installed

\* The client object that belongs to a service name.
C19_ClientOf(service) ==
    CASE service = "openai" -> "OpenAI"
      [] service = "anthropic" -> "Anthropic"
      [] OTHER -> NO_CLIENT

\* The client is present exactly when a service name is set, and it is the
\* client of that service.
C19_ClientMatchesService ==
    /\ ai_service \in Services
    /\ ai_client = C19_ClientOf(ai_service)
    /\ (ai_client # NO_CLIENT) <=> (ai_service # "none")

\* A step sends a request to the OpenAI client, to the Anthropic client.
C19_OpenAICall == AiOpenAIOk \/ AiOpenAIFails
C19_AnthropicCall == AiAttemptOk \/ AiAttemptFails

\* No step rebinds the selection, and every request goes to the active client.
C19_StepKeepsProvider ==
    /\ ai_client' = ai_client
    /\ ai_service' = ai_service
    /\ C19_OpenAICall => ai_client = "OpenAI"
    /\ C19_AnthropicCall => ai_client = "Anthropic"

\* C19 as stated: OpenAI is active when its key is available and its client
\* can be constructed, otherwise Anthropic is active when its key is
\* available, otherwise no provider is active.
C19_AnthropicByKeyAlone ==
    /\ (ai_service = "openai") <=> C19_OpenAIUsable
    /\ (ai_service = "anthropic") <=>
          (~C19_OpenAIUsable /\ KeyGiven(environ.ANTHROPIC_API_KEY))

\* C19: provider selection is decided at module initialisation and never
\* changes: OpenAI is active when its key is given and its package can be
\* imported, otherwise Anthropic when its key is given and its package can
\* be imported, otherwise none; the client is present exactly when the
\* service name is set; no step of an extraction call rebinds either of
\* them or sends a request to the other provider.
C19_SelectedOnce ==
    /\ [](/\ (ai_service = "openai") <=> C19_OpenAIUsable
          /\ (ai_service = "anthropic") <=> (~C19_OpenAIUsable /\ C19_AnthropicUsable)
          /\ C19_ClientMatchesService)
    /\ [][C19_StepKeepsProvider]_vars

\* With the OpenAI key given but its package missing, a call has been
\* answered by Anthropic.
C19_Witness ==
    /\ KeyGiven(environ.OPENAI_API_KEY)
    /\ ~environ.openai_installed
    /\ ai_service = "anthropic"
    /\ provider_called
    /\ pc = "done"
    /\ result.kind = "ret"

(***************************************************************************)
(* C20.  No provider configured.                                           *)
(***************************************************************************)
\* A call of the model path has ended in a process without a provider.
C20_NoProviderDone ==
    /\ pc = "done"
    /\ ai_client = NO_CLIENT
    /\ \/ call = "extract_with_ai"
       \/ call = "extract_sds_with_ml" /\ text # << >>
       \/ \E x \in DOMAIN SectionExtractors : call = SectionExtractors[x]

\* C20: when no provider is configured, extract_with_ai, extract_sds_with_ml
\* on a non-empty text (any strategy, light mode or not) and every
\* specialized extractor return a map whose only key is error, without a
\* provider call and without a blocking delay.
C20_ErrorOnly ==
    C20_NoProviderDone =>
        /\ result.kind = "ret"
        /\ DOMAIN result.rec = { "error" }
        /\ ~provider_called
        /\ wait_time = 0

\* Without a provider, extract_sds_with_ml has answered a multi-pass request
\* on a non-empty text with the error map.
C20_Witness ==
    /\ C20_NoProviderDone
    /\ call = "extract_sds_with_ml"
    /\ strategy = "multi_pass_extraction"
    /\ ~light_mode
    /\ DOMAIN result.rec = { "error" }

--------------------------------------------------------------------------
(* C21: the order of the delays in the retry wrapper of extract_with_ai    *)

\* A step in which the wrapper asks the provider, one in which the request
\* raised, and one in which time.sleep was called.
C21_Attempt == ai_pc = "loop" /\ calls' = calls + 1
C21_Failed  == C21_Attempt /\ retry_count' = retry_count + 1
C21_Slept   == sleeps' = sleeps + 1

C21_Step ==
    /\ C21_Attempt /\ calls = 0 => sleeps = 1 /\ wait_time = INITIAL_DELAY
    /\ C21_Slept /\ ~C21_Failed =>
          ai_pc = "entry" /\ sleeps = 0 /\ calls = 0 /\ wait_time' = INITIAL_DELAY
    /\ C21_Failed /\ is_rate_limit(last_exc') =>
          /\ C21_Slept
          /\ wait_time' = backoff_time * retry_count'
          /\ sleeps > 1 /\ is_rate_limit(last_exc) => wait_time' > wait_time
    /\ C21_Failed /\ ~is_rate_limit(last_exc') /\ retry_count' < max_retries =>
          C21_Slept /\ wait_time' = SHORT_DELAY
    /\ C21_Failed /\ ~is_rate_limit(last_exc') /\ retry_count' = max_retries =>
          ~C21_Slept /\ ai_pc' = "done" /\ HasError(ai_ret')

\* C21: the 3 s delay is taken once, before the first attempt and at no
\* other place; the n-th failed attempt that carries a rate-limit signal is
\* followed by a delay of 10*n seconds, longer than the one before it; another
\* failure is followed by 2 s when attempts remain and by the immediate
\* return of the error when it was the last attempt.
C21_DelayOrder == [][C21_Step]_vars

\* Nine failures, the ninth rate-limited (90 s), then a tenth failure of
\* another kind that returned the error without a further delay.
C21_Witness ==
    /\ ai_pc = "done"
    /\ retry_count = max_retries
    /\ ~is_rate_limit(last_exc)
    /\ HasError(ai_ret)
    /\ wait_time = backoff_time * (max_retries - 1)
    /\ sleeps = max_retries

--------------------------------------------------------------------------
(* C26: a delay of the retry wrapper is followed by another attempt        *)

\* A step of the wrapper that ends in time.sleep, and the loop test of
\* line 137 letting another attempt follow it.
C26_Delay == sleeps' > sleeps
C26_AttemptFollows == ai_pc' = "loop" /\ retry_count' < max_retries

\* C26: every blocking delay is followed by another provider attempt; after
\* the tenth failed attempt the call returns without a further delay.
C26_DelayThenAttempt == [][C26_Delay => C26_AttemptFollows]_vars

--------------------------------------------------------------------------
(* C22: the merge rule of Automatic mode, field by field                   *)

\* The value the rule selects from the two values of one field.
C22_Rule(pattern_value, section_value) ==
    IF CharLen(Strip(pattern_value)) > MEANINGFUL_LEN THEN pattern_value
    ELSE IF CharLen(Strip(section_value)) > MEANINGFUL_LEN THEN section_value
    ELSE << >>

C22_AutomaticDone ==
    Returned /\ call = "extract_sds_data" /\ sds_method = "Automatic"

\* C22: in Automatic mode the value delivered for a field is the cleaned
\* Pattern-based value when its trimmed length exceeds 3, otherwise the
\* cleaned Section-based value when its trimmed length exceeds 3, otherwise
\* the empty string; it is a function of the two values of that field alone.
C22_PerFieldRule ==
    C22_AutomaticDone =>
        \A f \in RegisterKeys :
            result.rec[f] =
                Str(clean_value(C22_Rule(Get(sds_pattern_data, f, << >>),
                                         Get(sds_section_data, f, << >>))))

\* One record in which a field took its Pattern-based value, another field
\* took its Section-based value although the pattern result has a short
\* value for it, and both results hold different values for both fields.
C22_Witness ==
    /\ C22_AutomaticDone
    /\ \E f, g \in RegisterKeys :
          /\ f # g
          /\ f \in DOMAIN sds_pattern_data /\ f \in DOMAIN sds_section_data
          /\ g \in DOMAIN sds_pattern_data /\ g \in DOMAIN sds_section_data
          /\ CharLen(Strip(sds_pattern_data[f])) > MEANINGFUL_LEN
          /\ CharLen(Strip(sds_section_data[f])) > MEANINGFUL_LEN
          /\ CharLen(Strip(sds_pattern_data[g])) = MEANINGFUL_LEN
          /\ CharLen(Strip(sds_section_data[g])) > MEANINGFUL_LEN
          /\ result.rec[f] = Str(clean_value(sds_pattern_data[f]))
          /\ result.rec[g] = Str(clean_value(sds_section_data[g]))
          /\ result.rec[f] # Str(clean_value(sds_section_data[f]))
          /\ result.rec[g] # Str(clean_value(sds_pattern_data[g]))

--------------------------------------------------------------------------
(* C27: Automatic mode against Pattern-based mode                          *)

C27_AutomaticDone ==
    Returned /\ call = "extract_sds_data" /\ sds_method = "Automatic"

\* What extract_sds_data(text, "Pattern-based") delivers for the same text.
C27_PatternBased == sds_record(sds_pattern_data, << >>, "Pattern-based")

--------------------------------------------------------------------------
(* C30: the clean-up of extract_sds_data is idempotent                     *)

C30_Delivered == Returned /\ call = "extract_sds_data"

\* v has no whitespace at either end and no two whitespace characters in a
\* row, and is at most 500 characters long.
C30_Normal(v) ==
    /\ v # << >> => ~IsSpace(v[1]) /\ ~IsSpace(v[Len(v)])
    /\ \A i \in 1..(Len(v) - 1) : ~(IsSpace(v[i]) /\ IsSpace(v[i + 1]))
    /\ CharLen(v) <= MAX_VALUE_LEN

\* C30: the clean-up applied to a delivered value returns it unchanged;
\* every delivered value is free of leading, trailing and repeated
\* whitespace and is at most 500 characters long.
C30_Idempotent ==
    C30_Delivered =>
        \A f \in RegisterKeys :
            /\ clean_value(result.rec[f].v) = result.rec[f].v
            /\ C30_Normal(result.rec[f].v)

\* One record with a value that was cut to 500 characters and a value that
\* lost its leading and repeated whitespace.
C30_Witness ==
    /\ C30_Delivered
    /\ sds_method = "Pattern-based"
    /\ \E f, g \in RegisterKeys :
          /\ Get(sds_pattern_data, f, << >>) = << "word250", SP, "word250" >>
          /\ CharLen(result.rec[f].v) = MAX_VALUE_LEN
          /\ result.rec[f].v[Len(result.rec[f].v)] = "..."
          /\ Get(sds_pattern_data, g, << >>) = << SP, "word4", SP, SP, "word3" >>
          /\ result.rec[g] = Str(<< "word4", SP, "word3" >>)

--------------------------------------------------------------------------
(* C23: the section-position hint of hierarchical_extraction               *)

\* The step that makes the section-position request with a client, and its
\* continuation with the first section extractor.
C23_HintStep == h_pc = "hint" /\ h_pc' # "hint" /\ ai_client # NO_CLIENT
C23_SectionsRun == h_pc' = "ident"

\* C23: whatever the section-position request does (it raises, or its
\* reply does not parse), the identification, hazard, first-aid,
\* firefighting and physical-property extractions run after it.
C23_HintBestEffort == [][C23_HintStep => C23_SectionsRun]_vars

--------------------------------------------------------------------------
(* C28: the error key of multi_pass_extraction                             *)

\* The step in which multi_pass_extraction merges and returns; results
\* holds basic_results before it and the combined record after it.
C28_MultiPassReturns == pc = "ml_multi_physical" /\ pc' = "ml_finish"
C28_SingleShotFailed == "error" \in DOMAIN results

\* C28: the record multi_pass_extraction returns has an error key only if
\* the record of the single-shot extraction has one.
C28_ErrorOnlyFromSingleShot ==
    [][C28_MultiPassReturns /\ "error" \in DOMAIN results' => C28_SingleShotFailed]_vars

--------------------------------------------------------------------------
(* C25: the keyword buckets of multi_pass_extraction                       *)

\* The merge step of multi_pass_extraction with a usable hazard result
\* whose GHS Classification is a list.
C25_Buckets ==
    /\ pc = "ml_multi_physical" /\ pc' = "ml_finish"
    /\ Usable(hazard_data)
    /\ "GHS Classification" \in DOMAIN hazard_data
    /\ hazard_data["GHS Classification"].t = "list"

\* The combined record before the hazard data is added (lines 612-632 leave
\* the hazard fields of lines 615-617 alone).
C25_Before == fill_missing(results, h_results)

\* The phrases of a value: its list items, or the items of a joined string.
C25_Phrases(val) == Range(val.v) \ { "; " }

\* C25: when Health Hazards (Physical Hazards) is still empty, every phrase
\* the merge places into it contains a health (physical) keyword.
C25_BucketedByKeyword ==
    [][C25_Buckets =>
          /\ Missing(C25_Before, "Health Hazards") =>
                \A c \in C25_Phrases(results'["Health Hazards"]) : HasHealthTerm(c)
          /\ Missing(C25_Before, "Physical Hazards")
                /\ "Physical Hazards" \in DOMAIN results' =>
                \A c \in C25_Phrases(results'["Physical Hazards"]) : HasPhysicalTerm(c)]_vars

--------------------------------------------------------------------------
(* C29: extract_from_pdf_with_ai ends and calls itself at most once        *)

C29_Running == call = "extract_from_pdf_with_ai" /\ pc \in { "pdf_acquire", "pdf_ai" }
C29_Ended   == call = "extract_from_pdf_with_ai" /\ pc = "done"

\* At most one nested call, none when the caller asked for light mode, and
\* a map as the result.
C29_Bounded ==
    call = "extract_from_pdf_with_ai" =>
        /\ nested <= 1
        /\ light_mode => nested = 0
        /\ nested = 1 => pdf_light
        /\ C29_Ended => result.kind = "ret"

\* A nested call is made by the outer frame only.
C29_NestsOnce == nested' # nested /\ call' = call => nested = 0 /\ ~pdf_light /\ ~light_mode

\* C29: every call of extract_from_pdf_with_ai ends with a result map; a
\* call with light_mode=False makes at most one nested light-mode call, a
\* call with light_mode=True makes none, also when the acquisition or the
\* pattern extraction raises.
C29_TerminatesNestingOnce ==
    /\ []C29_Bounded
    /\ [][C29_NestsOnce]_vars
    /\ C29_Running ~> C29_Ended

\* A call with light_mode=False whose live extraction raised has returned
\* the record of its one nested light-mode call.
C29_Witness ==
    /\ C29_Ended
    /\ ~light_mode
    /\ nested = 1
    /\ result.kind = "ret"
    /\ "Source File" \in DOMAIN result.rec
    /\ ai_ret.kind = "raise"

--------------------------------------------------------------------------
(* C24: extract_with_patterns returns what the first matching pattern found *)

\* extract_pattern_based has returned; these fields of its record are the
\* values extract_with_patterns returned for these lists.
C24_PatternDone == Returned /\ call = "extract_pattern_based"
C24_Lists ==
    [f \in { "Supplier Information", "Packing Group", "CAS Number", "Product Name" } |->
        CASE f = "Supplier Information" -> supplier_patterns
          [] f = "Packing Group" -> packing_group_patterns
          [] f = "CAS Number" -> cas_patterns
          [] OTHER -> product_patterns]

\* group(1), or group(0) for a pattern without a group, of the first pattern
\* of the list that matches the text, stripped; "" when none matches.
C24_FirstMatch(t, patterns) ==
    LET hits == { k \in 1..Len(patterns) : Matches(patterns[k], t) # {} }
    IN  IF hits = {} THEN << >>
        ELSE Strip(Capture(patterns[Min(hits)], t, Min(Matches(patterns[Min(hits)], t))))

C24_Agrees(f) == result.rec[f] = Str(C24_FirstMatch(text, C24_Lists[f]))

\* C24: the value returned for a list of patterns is the first capture
\* group (the whole match for a pattern without a group) of the first
\* pattern of the list that matches the text, and "" when none matches.
C24_FirstMatchReturned ==
    C24_PatternDone => \A f \in DOMAIN C24_Lists : C24_Agrees(f)

=============================================================================
